---- MODULE Spec2Model ----
(***************************************************************************)
(* A model of the stateful core of bee-productivity-analyzer:              *)
(*   - RateLimiter            (app/utils/rate_limiter.py)                  *)
(*   - SessionManager         (app/utils/session_manager.py)               *)
(*   - AnalysisProgressTracker(app/utils/progress_tracker.py)              *)
(*   - BeeTrendAnalyzer       (app/models/trend_analyzer.py)               *)
(*   - DataIntegrationService (app/services/data_intergration_service.py)  *)
(*   - BeekeepingReportGenerator (app/models/reporting_system.py)          *)
(* Each component has its own specification (SpecRL, SpecSession, ...)     *)
(* over its own variables; Spec is their interleaving.                     *)
(*                                                                         *)
(* datetime.now() is modelled by one clock per component, in the unit in    *)
(* which the component's retention is expressed:                           *)
(* now_s, now_p (seconds), now_min (minutes), now_day (days).              *)
(***************************************************************************)
EXTENDS Integers, Sequences, FiniteSets, TLC

VARIABLES
    now_s,        \* datetime.now() in seconds (rate limiter, progress tracker)
    requests,     \* RateLimiter.requests: user -> list of request times
    lock,         \* RateLimiter.lock: the thread holding it, or NoThread
    pc,           \* position of each thread inside is_allowed
    tuser,        \* the user_id argument of each thread's call
    cur,          \* each thread's local current_time
    before,       \* history: the user's list when each thread took the lock
    callLog,      \* history: the calls that returned, in order of return, each
                  \* with the user's list before and after it
    now_min,      \* datetime.now() in minutes (session table)
    sessions,     \* SessionManager.sessions: user -> session, or NoSession
    sessRet,      \* history: the last session operation and what it returned
    lastAccess,   \* history: when each user's session was created or last
                  \* returned by get_session
    now_p,        \* datetime.now() in seconds (progress tracker)
    progress_data,\* AnalysisProgressTracker.progress_data: id -> job, or NoJob
    progLast,     \* history: the last tracker operation, the job before it,
                  \* the events it emitted and whether it raised
    progOps,      \* number of tracker operations made
    now_day,      \* datetime.now() in days (trend history, data cache)
    data_points,  \* BeeTrendAnalyzer.data_points: user -> list of points
    trendRet,     \* history: the last analyzer operation and its result
    data_cache,   \* DataIntegrationService.data_cache: user -> list of entries
    cacheRet,     \* history: the last cache operation and its result
    pIn,          \* pruning, taken alone: the timestamps given
    pNow,         \* ... the time of the prune
    pOut,         \* ... which prune ran, its retention and what it kept
    repIn,        \* report: what the analyses found and what media analysis gave
    recArgs,      \* report: the lists passed to _compile_recommendations
    recommendations, \* report: report['recommendations'], or NotCompiled
    report,       \* report: what generate_comprehensive_report returned
    remerged,     \* report: _compile_recommendations applied to its own output
    heap,         \* the metrics dicts of the callers, by object identity
    series,       \* data_points of the two analyzers, as lists of references
    taPc,         \* unlocked add_data_point: position of each thread
    taUser,       \* ... its user_id argument
    taData,       \* ... its data argument
    taKept,       \* ... the list its comprehension built, not yet assigned
    taLog,        \* history: the points appended by the calls that returned
    scPc,         \* unlocked session calls: position of each thread
    scOp,         \* ... the operation it is in
    scUser,       \* ... its user_id argument
    scLocal,      \* ... the session its get_session read from the table
    scCalls,      \* number of session calls made
    nextOid,      \* identity of the next session dict
    scFaults,     \* history: what went wrong in the calls
    corrIn,       \* correlations: the entries given to _calculate_correlations
    corrOut,      \* ... the samples it paired and the dict it returned
    stIn,         \* status summary: the dict analyze_trends returned
    stOut,        \* ... the summary built from it
    actIn,        \* activity trend: the points of the user
    actOut,       \* ... the activity trend computed from them
    now_t,        \* datetime.utcnow() in days (tokens)
    tokens,       \* the tokens that generate_token has returned
    blacklist,    \* TokenBlacklist.blacklist: token -> expiration
    revoked,      \* history: the tokens the revoke and refresh routes denied
    tokenRet,     \* history: the last token route and what it answered
    mPc,          \* process_media_analysis: where the handler is
    mType,        \* ... the media_type of the request
    mJob,         \* ... progress_data[analysis_id], or NoJob
    mStep,        \* ... the step of the next update_progress
    mLog,         \* history: the steps reported, the terminal statuses the
                  \* job was given, whether a step raised
    trLock,       \* AnalysisProgressTracker._lock: the holder, or NoThread
    trPc,         \* position of each thread inside a tracker operation
    trOp,         \* the operation each thread is in
    trOut,        \* history: how each thread's last call ended
    trCalls       \* number of tracker calls made by the threads

vars == <<now_s, requests, lock, pc, tuser, cur, before, callLog,
          now_min, sessions, sessRet, lastAccess, now_p, progress_data, progLast, progOps,
          now_day, data_points, trendRet, data_cache, cacheRet,
          pIn, pNow, pOut, repIn, recArgs, recommendations, report, remerged,
          heap, series, taPc, taUser, taData, taKept, taLog,
          scPc, scOp, scUser, scLocal, scCalls, nextOid, scFaults,
          corrIn, corrOut, stIn, stOut, actIn, actOut,
          now_t, tokens, blacklist, revoked, tokenRet,
          mPc, mType, mJob, mStep, mLog,
          trLock, trPc, trOp, trOut, trCalls>>

rlVars == <<now_s, requests, lock, pc, tuser, cur, before, callLog>>

sessVars == <<now_min, sessions, sessRet, lastAccess>>

progVars == <<now_p, progress_data, progLast, progOps>>

trendVars == <<data_points, trendRet>>

cacheVars == <<data_cache, cacheRet>>

pruneVars == <<pIn, pNow, pOut>>

reportVars == <<repIn, recArgs, recommendations, report, remerged>>

aliasVars == <<heap, series>>

trendConcVars == <<taPc, taUser, taData, taKept, taLog>>

sessConcVars == <<scPc, scOp, scUser, scLocal, scCalls, nextOid, scFaults>>

corrVars == <<corrIn, corrOut>>

statusVars == <<stIn, stOut>>

activityVars == <<actIn, actOut>>

tokenVars == <<now_t, tokens, blacklist, revoked, tokenRet>>

\* the variables of the analyses that are studied on given inputs
studyVars == <<corrVars, statusVars, activityVars>>

mediaVars == <<mPc, mType, mJob, mStep, mLog>>

trackVars == <<trLock, trPc, trOp, trOut, trCalls>>

\* the variables of the routes and handlers
routeVars == <<tokenVars, mediaVars, trackVars>>

\* the variables of the studies of aliasing and of unlocked interleavings and
\* of the analyses
laterVars == <<aliasVars, trendConcVars, sessConcVars, studyVars, routeVars>>

\* what the operations of one component leave alone
RLFrame ==
    UNCHANGED <<sessVars, progVars, now_day, trendVars, cacheVars, pruneVars, reportVars,
               laterVars>>
SessFrame ==
    UNCHANGED <<rlVars, progVars, now_day, trendVars, cacheVars, pruneVars, reportVars,
               laterVars>>
ProgFrame ==
    UNCHANGED <<rlVars, sessVars, now_day, trendVars, cacheVars, pruneVars, reportVars,
               laterVars>>
TrendFrame ==
    UNCHANGED <<rlVars, sessVars, progVars, cacheVars, pruneVars, reportVars,
               laterVars>>
CacheFrame ==
    UNCHANGED <<rlVars, sessVars, progVars, trendVars, pruneVars, reportVars,
               laterVars>>
ReportFrame ==
    UNCHANGED <<rlVars, sessVars, progVars, now_day, trendVars, cacheVars, pruneVars,
               laterVars>>
PruneFrame ==
    UNCHANGED <<rlVars, sessVars, progVars, now_day, trendVars, cacheVars, reportVars,
               laterVars>>
AliasFrame ==
    UNCHANGED <<rlVars, sessVars, progVars, trendVars, cacheVars, pruneVars, reportVars,
               trendConcVars, sessConcVars, studyVars, routeVars>>
TrendConcFrame ==
    UNCHANGED <<rlVars, sessVars, progVars, trendRet, cacheVars, pruneVars, reportVars,
               aliasVars, sessConcVars, studyVars, routeVars>>
SessConcFrame ==
    UNCHANGED <<rlVars, sessRet, lastAccess, progVars, now_day, trendVars, cacheVars,
               pruneVars, reportVars, aliasVars, trendConcVars, studyVars,
               routeVars>>

\* the variables of the stores and of the report
storeVars == <<rlVars, sessVars, progVars, now_day, trendVars, cacheVars, pruneVars,
               reportVars, aliasVars, trendConcVars, sessConcVars>>
CorrFrame == UNCHANGED <<storeVars, statusVars, activityVars, routeVars>>
StatusFrame == UNCHANGED <<storeVars, corrVars, activityVars, routeVars>>
ActivityFrame == UNCHANGED <<storeVars, corrVars, statusVars, routeVars>>
TokenFrame == UNCHANGED <<storeVars, studyVars, mediaVars, trackVars>>
MediaFrame == UNCHANGED <<storeVars, studyVars, tokenVars, trackVars>>
TrackFrame == UNCHANGED <<storeVars, studyVars, tokenVars, mediaVars>>

Users == {"u1", "u2"}
NoUser == "none"

\* a time field that holds None
NoTime == -1

RECURSIVE isoformat(_)
\* datetime.isoformat(): the instant written out as text
isoformat(t) ==
    IF t < 10 THEN <<t>> ELSE Append(isoformat(t \div 10), t % 10)

RECURSIVE fromisoformat(_)
\* datetime.fromisoformat(): the text read back as an instant
fromisoformat(txt) ==
    IF Len(txt) = 0 THEN 0
    ELSE 10 * fromisoformat(SubSeq(txt, 1, Len(txt) - 1)) + txt[Len(txt)]

(***************************************************************************)
(* RateLimiter                                                             *)
(***************************************************************************)
max_requests == 3
time_window == 60

NThreads == 2
MaxCalls == 5
RLMaxClock == 61
RLTickSteps == {30, 31}

Threads == 1..NThreads
NoThread == 0

\* a prune that keeps the request whose age is exactly time_window
RLPruneKeepsBoundary(reqs, current_time) ==
    SelectSeq(reqs, LAMBDA req_time : current_time - req_time <= time_window)

\* rate_limiter.py:16-19, the list comprehension that drops old requests
RLPrune(reqs, current_time) ==
    SelectSeq(reqs, LAMBDA req_time : current_time - req_time < time_window)

\* an entry that does not wait for the lock
LockIgnored == TRUE

\* rate_limiter.py:13, `with self.lock`: entry needs the lock to be free
LockFree == lock = NoThread

\* rate_limiter.py:22, the limit test
LimitReached(reqs) == Len(reqs) >= max_requests

RLInit ==
    /\ now_s = 0
    /\ requests = [u \in Users |-> <<>>]
    /\ lock = NoThread
    /\ pc = [t \in Threads |-> "idle"]
    /\ tuser = [t \in Threads |-> NoUser]
    /\ cur = [t \in Threads |-> 0]
    /\ before = [t \in Threads |-> <<>>]
    /\ callLog = <<>>

InFlight == Cardinality({t \in Threads : pc[t] # "idle"})

\* a thread calls is_allowed(user_id) and waits at `with self.lock`
RLCall(t, u) ==
    /\ pc[t] = "idle"
    /\ Len(callLog) + InFlight < MaxCalls
    /\ pc' = [pc EXCEPT ![t] = "acquire"]
    /\ tuser' = [tuser EXCEPT ![t] = u]
    /\ UNCHANGED <<now_s, requests, lock, cur, before, callLog>>
    /\ RLFrame

\* lines 13-14: take the lock, read the clock
RLAcquire(t) ==
    /\ pc[t] = "acquire"
    /\ LockFree
    /\ lock' = t
    /\ cur' = [cur EXCEPT ![t] = now_s]
    /\ before' = [before EXCEPT ![t] = requests[tuser[t]]]
    /\ pc' = [pc EXCEPT ![t] = "prune"]
    /\ UNCHANGED <<now_s, requests, tuser, callLog>>
    /\ RLFrame

\* lines 16-19: self.requests[user_id] = [...]
RLPruneStep(t) ==
    /\ pc[t] = "prune"
    /\ requests' = [requests EXCEPT ![tuser[t]] = RLPrune(@, cur[t])]
    /\ pc' = [pc EXCEPT ![t] = "check"]
    /\ UNCHANGED <<now_s, lock, tuser, cur, before, callLog>>
    /\ RLFrame

\* lines 22-23: over the limit, return False (the lock is released)
RLDeny(t) ==
    /\ pc[t] = "check"
    /\ LimitReached(requests[tuser[t]])
    /\ callLog' = Append(callLog, [user |-> tuser[t], at |-> cur[t], ok |-> FALSE,
                                    before |-> before[t],
                                    after |-> requests[tuser[t]]])
    /\ lock' = IF lock = t THEN NoThread ELSE lock
    /\ pc' = [pc EXCEPT ![t] = "idle"]
    /\ tuser' = [tuser EXCEPT ![t] = NoUser]
    /\ cur' = [cur EXCEPT ![t] = 0]
    /\ before' = [before EXCEPT ![t] = <<>>]
    /\ UNCHANGED <<now_s, requests>>
    /\ RLFrame

\* line 22 false: go on to line 26
RLPass(t) ==
    /\ pc[t] = "check"
    /\ ~LimitReached(requests[tuser[t]])
    /\ pc' = [pc EXCEPT ![t] = "append"]
    /\ UNCHANGED <<now_s, requests, lock, tuser, cur, before, callLog>>
    /\ RLFrame

\* lines 26-27: append current_time, return True (the lock is released)
RLAppend(t) ==
    /\ pc[t] = "append"
    /\ requests' = [requests EXCEPT ![tuser[t]] = Append(@, cur[t])]
    /\ callLog' = Append(callLog, [user |-> tuser[t], at |-> cur[t], ok |-> TRUE,
                                    before |-> before[t],
                                    after |-> Append(requests[tuser[t]], cur[t])])
    /\ lock' = IF lock = t THEN NoThread ELSE lock
    /\ pc' = [pc EXCEPT ![t] = "idle"]
    /\ tuser' = [tuser EXCEPT ![t] = NoUser]
    /\ cur' = [cur EXCEPT ![t] = 0]
    /\ before' = [before EXCEPT ![t] = <<>>]
    /\ UNCHANGED now_s
    /\ RLFrame

\* time passes
RLTick ==
    /\ \E d \in RLTickSteps :
          /\ now_s + d <= RLMaxClock
          /\ now_s' = now_s + d
    /\ UNCHANGED <<requests, lock, pc, tuser, cur, before, callLog>>
    /\ RLFrame

RLNext ==
    \/ \E t \in Threads, u \in Users : RLCall(t, u)
    \/ \E t \in Threads : RLAcquire(t)
    \/ \E t \in Threads : RLPruneStep(t)
    \/ \E t \in Threads : RLDeny(t)
    \/ \E t \in Threads : RLPass(t)
    \/ \E t \in Threads : RLAppend(t)
    \/ RLTick

(***************************************************************************)
(* Claims about the rate limiter, checked under SpecRL                     *)
(***************************************************************************)
LogIdx == 1..Len(callLog)

AllowedIdx(u) == {j \in LogIdx : callLog[j].user = u /\ callLog[j].ok}

\* C1: under any interleaving of concurrent is_allowed calls, the calls of
\* one user that returned True with call times inside one window of length
\* time_window (first call included, age < time_window as the prune counts
\* it) never number more than max_requests, and the user's stored list never
\* holds more than max_requests timestamps.
C1_RateBound ==
    \A u \in Users :
        /\ Len(requests[u]) <= max_requests
        /\ \A i \in AllowedIdx(u) :
              Cardinality({j \in AllowedIdx(u) :
                              /\ callLog[i].at <= callLog[j].at
                              /\ callLog[j].at - callLog[i].at < time_window})
                  <= max_requests

\* C1 witness: the user's window is full, one thread holds the lock and is at
\* the limit test while another thread waits for the lock with a call for the
\* same user.
C1_Witness ==
    \E t1 \in Threads, t2 \in Threads :
        /\ t1 # t2
        /\ pc[t1] = "check"
        /\ lock = t1
        /\ pc[t2] = "acquire"
        /\ tuser[t1] = tuser[t2]
        /\ Len(requests[tuser[t1]]) = max_requests

\* C2: a call returns True if and only if fewer than max_requests earlier
\* allowed calls of the same user have age < time_window at the call; denied
\* calls are not counted.
C2_AllowedIff ==
    \A i \in LogIdx :
        callLog[i].ok <=>
            Cardinality({j \in AllowedIdx(callLog[i].user) :
                            /\ j < i
                            /\ callLog[i].at - callLog[j].at < time_window})
                < max_requests

\* C2 witness: three calls of one user allowed, a fourth inside the same
\* window denied, and a call 61 s after the denied one allowed.
C2_Witness ==
    /\ Len(callLog) = 5
    /\ \A i \in 1..5 : callLog[i].user = "u1"
    /\ callLog[1].ok /\ callLog[2].ok /\ callLog[3].ok
    /\ ~callLog[4].ok
    /\ callLog[4].at - callLog[1].at < time_window
    /\ callLog[5].ok
    /\ callLog[5].at = callLog[4].at + 61

\* C17: a call of is_allowed for one user never waits for the lock while a
\* call for a different user holds it.
C17_NoCrossKeyBlocking ==
    \A t1 \in Threads, t2 \in Threads :
        ~(/\ t1 # t2
          /\ pc[t1] = "acquire"
          /\ lock = t2
          /\ tuser[t1] # tuser[t2])

\* C18: a call that returned False left the user's list as it found it when
\* it took the lock: nothing appended, nothing removed.
C18_DeniedLeavesListAlone ==
    \A i \in LogIdx :
        ~callLog[i].ok => callLog[i].after = callLog[i].before

\* C18 witness: a call denied some time after the user's three requests were
\* stored, its prune having run over a full list.
C18_Witness ==
    \E i \in LogIdx :
        /\ ~callLog[i].ok
        /\ Len(callLog[i].before) = max_requests
        /\ callLog[i].at > callLog[i].before[max_requests]

(***************************************************************************)
(* SessionManager                                                          *)
(***************************************************************************)
session_timeout == 60

SessMaxClock == 61
SessTickSteps == {30, 31}
Connections == {"c1", "c2"}
NoSession == [absent |-> TRUE]

MaxSessItems == 1
\* what update_session gets as data, add_to_history as interaction,
\* add_media_result as result and update_context as context
SessDataIn == {[connection_id |-> "c2"], [last_activity |-> 0]}
InteractionsIn == {[query |-> "q"]}
MediaResultsIn == {[bee_count |-> 10]}
ContextIn == {[topic |-> "hive"]}

\* session_manager.py:12-21, the session dict built by create_session
NewSession(user_id, connection_id) ==
    [user_id |-> user_id,
     connection_id |-> connection_id,
     created_at |-> now_min,
     last_activity |-> now_min,
     history |-> <<>>,
     context |-> <<>>,
     media_uploads |-> <<>>,
     analysis_results |-> <<>>]

\* a validity test that still accepts a session idle for exactly the timeout
IsSessionValidInclusive(session) ==
    now_min - session.last_activity <= session_timeout

\* session_manager.py:70-73
IsSessionValid(session) ==
    now_min - session.last_activity < session_timeout

\* a get_session that returns the session as it is
Untouched(session) == session

\* session_manager.py:30
Touch(session) == [session EXCEPT !.last_activity = now_min]

SessInit ==
    /\ now_min = 0
    /\ sessions = [u \in Users |-> NoSession]
    /\ sessRet = [op |-> "none"]
    /\ lastAccess = [u \in Users |-> NoTime]

\* session_manager.py:10-23
create_session(u, c) ==
    /\ sessions' = [sessions EXCEPT ![u] = NewSession(u, c)]
    /\ sessRet' = [op |-> "create_session", user |-> u, at |-> now_min,
                   pre |-> sessions[u], found |-> TRUE]
    /\ lastAccess' = [lastAccess EXCEPT ![u] = now_min]
    /\ UNCHANGED now_min
    /\ SessFrame

\* a lookup that, on finding the session not valid, ends every session that
\* is not valid
LookupSweeping(u) ==
    IF sessions[u] # NoSession /\ IsSessionValid(sessions[u])
    THEN [found |-> TRUE, table |-> [sessions EXCEPT ![u] = Touch(@)]]
    ELSE [found |-> FALSE,
          table |-> [w \in Users |->
                        IF w = u THEN NoSession
                        ELSE IF sessions[w] # NoSession /\ ~IsSessionValid(sessions[w])
                             THEN NoSession
                             ELSE sessions[w]]]

\* session_manager.py:25-34, as the other operations call it: whether a
\* session is returned, and the table after the call
Lookup(u) ==
    IF sessions[u] # NoSession /\ IsSessionValid(sessions[u])
    THEN [found |-> TRUE, table |-> [sessions EXCEPT ![u] = Touch(@)]]
    ELSE \* end_session(user_id) for a session that is not valid; return None
         [found |-> FALSE, table |-> [sessions EXCEPT ![u] = NoSession]]

\* the session that get_session(user_id) hands to the operation
Got(u) == Lookup(u).table[u]

\* one operation that starts with get_session(user_id) and then, when a
\* session came back, leaves it as `changed`
SessAccess(op, u, changed) ==
    LET looked == Lookup(u)
    IN  /\ sessions' = IF looked.found
                       THEN [looked.table EXCEPT ![u] = changed]
                       ELSE looked.table
        /\ sessRet' = [op |-> op, user |-> u, at |-> now_min,
                       pre |-> sessions[u], found |-> looked.found]
        /\ lastAccess' = [lastAccess EXCEPT ![u] =
                              IF looked.found THEN now_min ELSE NoTime]
        /\ UNCHANGED now_min
        /\ SessFrame

\* session_manager.py:25-34
get_session(u) ==
    /\ IF sessions[u] # NoSession
       THEN IF IsSessionValid(sessions[u])
            THEN /\ sessions' = [sessions EXCEPT ![u] = Touch(@)]
                 /\ sessRet' = [op |-> "get_session", user |-> u, at |-> now_min,
                                pre |-> sessions[u], found |-> TRUE]
                 /\ lastAccess' = [lastAccess EXCEPT ![u] = now_min]
            ELSE \* end_session(user_id), then return None
                 /\ sessions' = [sessions EXCEPT ![u] = NoSession]
                 /\ sessRet' = [op |-> "get_session", user |-> u, at |-> now_min,
                                pre |-> sessions[u], found |-> FALSE]
                 /\ lastAccess' = [lastAccess EXCEPT ![u] = NoTime]
       ELSE /\ sessions' = sessions
            /\ sessRet' = [op |-> "get_session", user |-> u, at |-> now_min,
                           pre |-> sessions[u], found |-> FALSE]
            /\ lastAccess' = lastAccess
    /\ UNCHANGED now_min
    /\ SessFrame

\* session_manager.py:36-40: session.update(data), then last_activity = now
update_session(u, data) ==
    SessAccess("update_session", u,
               [(data @@ Got(u)) EXCEPT !.last_activity = now_min])

\* history and analysis_results together hold at most MaxSessItems entries
HasRoom(u) ==
    sessions[u] # NoSession =>
        Len(sessions[u].history) + Len(sessions[u].analysis_results) < MaxSessItems

\* session_manager.py:42-46
add_to_history(u, interaction) ==
    /\ HasRoom(u)
    /\ SessAccess("add_to_history", u,
                  [Got(u) EXCEPT !.history =
                      Append(@, [timestamp |-> isoformat(now_min)] @@ interaction)])

\* session_manager.py:48-52
add_media_result(u, result) ==
    /\ HasRoom(u)
    /\ SessAccess("add_media_result", u,
                  [Got(u) EXCEPT !.analysis_results =
                      Append(@, [timestamp |-> isoformat(now_min)] @@ result)])

\* session_manager.py:54-58
get_session_context(u) ==
    SessAccess("get_session_context", u, Got(u))

\* session_manager.py:60-63
update_context(u, context) ==
    SessAccess("update_context", u,
               [Got(u) EXCEPT !.context = context @@ @])

\* session_manager.py:84-93
get_session_summary(u) ==
    SessAccess("get_session_summary", u, Got(u))

\* session_manager.py:65-68
end_session(u) ==
    /\ sessions' = [sessions EXCEPT ![u] = NoSession]
    /\ sessRet' = [op |-> "end_session", user |-> u, at |-> now_min,
                   pre |-> sessions[u], found |-> FALSE]
    /\ lastAccess' = [lastAccess EXCEPT ![u] = NoTime]
    /\ UNCHANGED now_min
    /\ SessFrame

\* a sweep that also refreshes the sessions it keeps
SweepAndRefresh(table) ==
    [u \in Users |->
        IF table[u] = NoSession \/ ~IsSessionValid(table[u]) THEN NoSession
        ELSE Touch(table[u])]

\* session_manager.py:77-82: the sessions that are not valid are ended
Sweep(table) ==
    [u \in Users |->
        IF table[u] # NoSession /\ ~IsSessionValid(table[u]) THEN NoSession
        ELSE table[u]]

\* session_manager.py:75-82
cleanup_expired_sessions ==
    /\ sessions' = Sweep(sessions)
    /\ sessRet' = [op |-> "cleanup_expired_sessions", user |-> NoUser,
                   at |-> now_min, pre |-> NoSession, found |-> FALSE,
                   table |-> sessions]
    /\ UNCHANGED <<now_min, lastAccess>>
    /\ SessFrame

SessTick ==
    /\ \E d \in SessTickSteps :
          /\ now_min + d <= SessMaxClock
          /\ now_min' = now_min + d
    /\ UNCHANGED <<sessions, sessRet, lastAccess>>
    /\ SessFrame

\* the life of the sessions of all users
SessNext ==
    \/ \E u \in Users, c \in Connections : create_session(u, c)
    \/ \E u \in Users : get_session(u)
    \/ \E u \in Users : end_session(u)
    \/ cleanup_expired_sessions
    \/ SessTick

\* every operation of the manager, on the session of one user
AccessUsers == {"u1"}

SessAccessNext ==
    \/ \E u \in AccessUsers, c \in Connections : create_session(u, c)
    \/ \E u \in AccessUsers : get_session(u)
    \/ \E u \in AccessUsers, data \in SessDataIn : update_session(u, data)
    \/ \E u \in AccessUsers, interaction \in InteractionsIn :
           add_to_history(u, interaction)
    \/ \E u \in AccessUsers, result \in MediaResultsIn : add_media_result(u, result)
    \/ \E u \in AccessUsers : get_session_context(u)
    \/ \E u \in AccessUsers, context \in ContextIn : update_context(u, context)
    \/ \E u \in AccessUsers : get_session_summary(u)
    \/ \E u \in AccessUsers : end_session(u)
    \/ cleanup_expired_sessions
    \/ SessTick

\* C3: get_session returns the session if and only if one exists and
\* now - last_activity < session_timeout; otherwise it returns None and the
\* user has no session in the table after the call.
C3_GetSession ==
    sessRet.op = "get_session" =>
        /\ sessRet.found <=>
              /\ sessRet.pre # NoSession
              /\ sessRet.at - sessRet.pre.last_activity < session_timeout
        /\ ~sessRet.found => sessions[sessRet.user] = NoSession
        /\ sessRet.found => sessions[sessRet.user] # NoSession

\* C3 witness: get_session on a session last active 61 minutes ago returned
\* None and the session is gone.
C3_Witness ==
    /\ sessRet.op = "get_session"
    /\ sessRet.pre # NoSession
    /\ sessRet.pre.last_activity = sessRet.at - 61
    /\ ~sessRet.found
    /\ sessions[sessRet.user] = NoSession

AccessOps ==
    {"get_session", "update_session", "add_to_history", "add_media_result",
     "get_session_context", "update_context", "get_session_summary"}

\* C19: every operation that got the session from get_session leaves its
\* last_activity at the time of the call; last_activity is always the time
\* of the creation or of the last such access; and an access made less than
\* session_timeout after it finds the session, so that a session accessed at
\* shorter intervals never expires.
C19_AccessRefreshes ==
    /\ \A u \in Users :
          sessions[u] # NoSession => sessions[u].last_activity = lastAccess[u]
    /\ sessRet.op \in AccessOps =>
          /\ sessRet.found =>
                /\ sessions[sessRet.user] # NoSession
                /\ sessions[sessRet.user].last_activity = sessRet.at
          /\ (/\ sessRet.pre # NoSession
              /\ sessRet.at - sessRet.pre.last_activity < session_timeout)
                => sessRet.found

\* C19 witness: a session older than the timeout, with an interaction in its
\* history, was found by get_session_summary because an access had refreshed
\* it in between.
C19_Witness ==
    /\ sessRet.op = "get_session_summary"
    /\ sessRet.found
    /\ sessRet.at - sessions[sessRet.user].created_at > session_timeout
    /\ sessRet.at - sessRet.pre.last_activity > 0
    /\ Len(sessions[sessRet.user].history) = 1

\* C29: cleanup_expired_sessions run at time now removes exactly the
\* sessions with now - last_activity >= timeout; every other session is
\* afterwards what it was before, its last_activity included.
C29_SweepExact ==
    sessRet.op = "cleanup_expired_sessions" =>
        \A u \in Users :
            LET old == sessRet.table[u]
            IN  IF old # NoSession /\ sessRet.at - old.last_activity >= session_timeout
                THEN sessions[u] = NoSession
                ELSE sessions[u] = old

\* C29 witness: a sweep removed a session idle for exactly the timeout and
\* kept one that was last active before the sweep.
C29_Witness ==
    /\ sessRet.op = "cleanup_expired_sessions"
    /\ \E u, v \in Users :
          /\ sessRet.table[u] # NoSession
          /\ sessRet.at - sessRet.table[u].last_activity = session_timeout
          /\ sessions[u] = NoSession
          /\ sessRet.table[v] # NoSession
          /\ sessRet.table[v].last_activity < sessRet.at
          /\ sessions[v] = sessRet.table[v]

(***************************************************************************)
(* AnalysisProgressTracker                                                 *)
(* Every operation runs wholly inside `with self._lock`, the emit          *)
(* included, so each operation is one atomic action.                       *)
(***************************************************************************)
MaxProgOps == 4
ProgMaxClock == 2

AnalysisIds == {"A", "B"}
TotalStepsIn == {0, 3}
StepsIn == {1, 2}
MessagesIn == {"m"}
ResultsIn == {"r1", "r2"}
ErrorsIn == {"e1"}
NoJob == [absent |-> TRUE]
Absent == "absent"

\* a job that waits to be started
NewJobPending(total_steps) ==
    [started_at |-> now_p,
     current_step |-> 0,
     total_steps |-> total_steps,
     status |-> "pending",
     messages |-> <<>>,
     completed_at |-> NoTime,
     results |-> Absent,
     error |-> Absent]

\* progress_tracker.py:15-22, the dict start_tracking stores
NewJob(total_steps) ==
    [started_at |-> now_p,
     current_step |-> 0,
     total_steps |-> total_steps,
     status |-> "in_progress",
     messages |-> <<>>,
     completed_at |-> NoTime,
     results |-> Absent,
     error |-> Absent]

\* progress_tracker.py:27, the condition under which update_progress acts
UpdateActsOn(id) == progress_data[id] # NoJob

\* progress_tracker.py:51, the condition under which complete_analysis acts
CompleteActsOn(id) == progress_data[id] # NoJob

\* progress_tracker.py:66, the condition under which fail_analysis acts
FailActsOn(id) == progress_data[id] # NoJob

ProgInit ==
    /\ now_p = 0
    /\ progress_data = [id \in AnalysisIds |-> NoJob]
    /\ progLast = [op |-> "none"]
    /\ progOps = 0

\* the record of one operation: its arguments args, the job before it, the
\* events it emitted and whether it raised
ProgOpWith(op, id, emitted, raised, args) ==
    /\ progOps < MaxProgOps
    /\ progOps' = progOps + 1
    /\ progLast' = [op |-> op, id |-> id, pre |-> progress_data[id],
                    emitted |-> emitted, raised |-> raised] @@ args
    /\ UNCHANGED now_p
    /\ ProgFrame

ProgOp(op, id, emitted, raised) == ProgOpWith(op, id, emitted, raised, <<>>)

\* progress_tracker.py:29-34
Updated(job, step, message) ==
    [job EXCEPT !.current_step = step,
                !.messages = Append(@, [step |-> step, message |-> message,
                                        timestamp |-> now_p])]

\* progress_tracker.py:52-56
Completed(job, results) ==
    [job EXCEPT !.status = "completed", !.completed_at = now_p, !.results = results]

\* progress_tracker.py:68-72
Failed(job, error) ==
    [job EXCEPT !.status = "failed", !.completed_at = now_p, !.error = error]

\* progress_tracker.py:12-22
start_tracking(id, total_steps) ==
    /\ progress_data' = [progress_data EXCEPT ![id] = NewJob(total_steps)]
    /\ ProgOpWith("start_tracking", id, <<>>, FALSE, [total_steps |-> total_steps])

\* progress_tracker.py:24-46: the job is written first, then the percentage
\* is computed (ZeroDivisionError when total_steps is 0), then the event is
\* emitted
update_progress(id, step, message) ==
    IF UpdateActsOn(id)
    THEN /\ progress_data' = [progress_data EXCEPT ![id] = Updated(@, step, message)]
         /\ IF progress_data[id].total_steps = 0
            THEN ProgOp("update_progress", id, <<>>, TRUE)
            ELSE ProgOp("update_progress", id, <<"analysis_progress">>, FALSE)
    ELSE /\ UNCHANGED progress_data
         /\ ProgOp("update_progress", id, <<>>, FALSE)

\* progress_tracker.py:48-62
complete_analysis(id, results) ==
    IF CompleteActsOn(id)
    THEN /\ progress_data' = [progress_data EXCEPT ![id] = Completed(@, results)]
         /\ ProgOp("complete_analysis", id, <<"analysis_complete">>, FALSE)
    ELSE /\ UNCHANGED progress_data
         /\ ProgOp("complete_analysis", id, <<>>, FALSE)

\* progress_tracker.py:64-77
fail_analysis(id, error) ==
    IF FailActsOn(id)
    THEN /\ progress_data' = [progress_data EXCEPT ![id] = Failed(@, error)]
         /\ ProgOp("fail_analysis", id, <<"analysis_failed">>, FALSE)
    ELSE /\ UNCHANGED progress_data
         /\ ProgOp("fail_analysis", id, <<>>, FALSE)

\* progress_tracker.py:79-82
get_progress(id) ==
    /\ UNCHANGED progress_data
    /\ ProgOp("get_progress", id, <<>>, FALSE)

ProgTick ==
    /\ now_p < ProgMaxClock
    /\ now_p' = now_p + 1
    /\ UNCHANGED <<progress_data, progLast, progOps>>
    /\ ProgFrame

ProgNext ==
    \/ \E id \in AnalysisIds, n \in TotalStepsIn : start_tracking(id, n)
    \/ \E id \in AnalysisIds, k \in StepsIn, m \in MessagesIn :
          update_progress(id, k, m)
    \/ \E id \in AnalysisIds, r \in ResultsIn : complete_analysis(id, r)
    \/ \E id \in AnalysisIds, e \in ErrorsIn : fail_analysis(id, e)
    \/ \E id \in AnalysisIds : get_progress(id)
    \/ ProgTick

Terminal(job) == job # NoJob /\ job.status \in {"completed", "failed"}

\* C4: complete_analysis and fail_analysis on a job that is already completed
\* or failed change nothing: status, completed_at, results and error stay as
\* they were.
C4_TerminalNoOp ==
    (/\ progLast.op \in {"complete_analysis", "fail_analysis"}
     /\ Terminal(progLast.pre))
        => progress_data[progLast.id] = progLast.pre

\* C5: update_progress on an in_progress job sets current_step to the given
\* step and appends exactly one message; on a completed or failed job it
\* changes neither current_step nor messages.
C5_UpdateOnlyInProgress ==
    progLast.op = "update_progress" /\ progLast.pre # NoJob =>
        IF progLast.pre.status = "in_progress"
        THEN /\ Len(progress_data[progLast.id].messages)
                    = Len(progLast.pre.messages) + 1
             /\ progress_data[progLast.id].current_step
                    = progress_data[progLast.id].messages[
                          Len(progress_data[progLast.id].messages)].step
        ELSE /\ progress_data[progLast.id].current_step = progLast.pre.current_step
             /\ progress_data[progLast.id].messages = progLast.pre.messages

\* C20: every operation that changes a job (start_tracking, and
\* update_progress, complete_analysis, fail_analysis on a job of the table)
\* emits exactly one event before it returns.
C20_OneNotificationPerTransition ==
    (/\ progLast.op \in {"start_tracking", "update_progress",
                         "complete_analysis", "fail_analysis"}
     /\ progLast.op = "start_tracking" \/ progLast.pre # NoJob)
        => Len(progLast.emitted) = 1

\* C30: a tracker operation that raised left the job as it was before the
\* call: current_step and messages are unchanged.
C30_FailedUpdateChangesNothing ==
    (progLast.op # "none" /\ progLast.raised)
        => progress_data[progLast.id] = progLast.pre

\* C31: update_progress, complete_analysis and fail_analysis for an id that
\* has no job raise to the caller.
C31_UnknownIdRaises ==
    (/\ progLast.op \in {"update_progress", "complete_analysis", "fail_analysis"}
     /\ progLast.pre = NoJob)
        => progLast.raised

\* C35: after start_tracking(id, total_steps) the job is in_progress at step
\* 0 with no messages, no result, no error and the given total_steps,
\* whatever was stored for the id before.
C35_StartGivesFreshJob ==
    progLast.op = "start_tracking" =>
        LET job == progress_data[progLast.id]
        IN  /\ job # NoJob
            /\ job.status = "in_progress"
            /\ job.current_step = 0
            /\ job.messages = <<>>
            /\ job.total_steps = progLast.total_steps
            /\ job.completed_at = NoTime
            /\ job.results = Absent
            /\ job.error = Absent
            /\ job.started_at <= now_p

\* C35 witness: start_tracking replaced a completed job that had advanced.
C35_Witness ==
    /\ progLast.op = "start_tracking"
    /\ progLast.pre # NoJob
    /\ progLast.pre.status = "completed"
    /\ progLast.pre.current_step > 0
    /\ progress_data[progLast.id].status = "in_progress"

(***************************************************************************)
(* BeeTrendAnalyzer: the per-user history                                  *)
(***************************************************************************)
trend_retention_days == 365
minimum_data_points == 5

MaxPoints == 6
TrendInstants == {0, 1, 365, 366}
MetricsIn == {[bee_count |-> 10]}

\* a prune that keeps the point whose age is exactly the retention
TrendPruneKeepsBoundary(points, now) ==
    SelectSeq(points, LAMBDA point : point.timestamp >= now - trend_retention_days)

\* trend_analyzer.py:29-33: cutoff_date = now - 365 days, keep timestamp > cutoff
TrendPrune(points, now) ==
    SelectSeq(points, LAMBDA point : point.timestamp > now - trend_retention_days)

TrendInit ==
    /\ now_day = 0
    /\ data_points = <<>>
    /\ trendRet = [op |-> "none"]

\* trend_analyzer.py:20-33
add_data_point(u, data) ==
    /\ u \in DOMAIN data_points => Len(data_points[u]) < MaxPoints
    /\ LET old == IF u \in DOMAIN data_points THEN data_points[u] ELSE <<>>
           point == [timestamp |-> now_day, bee_count |-> data.bee_count]
           kept == TrendPrune(Append(old, point), now_day)
       IN  /\ data_points' = (u :> kept) @@ data_points
           /\ trendRet' = [op |-> "add_data_point", user |-> u, at |-> now_day,
                           keys |-> {}, used |-> Append(old, point)]
    /\ UNCHANGED now_day
    /\ TrendFrame

\* the keys of a successful analyze_trends result, trend_analyzer.py:53-62
TrendKeys ==
    {"activity_trend", "productivity_trend", "seasonal_pattern", "recommendations"}

\* trend_analyzer.py:41
TooFewPoints(data) == Len(data) < minimum_data_points

\* trend_analyzer.py:35-62: the keys of the returned dict and the list the
\* analysis is computed from
analyze_trends(u) ==
    /\ IF u \notin DOMAIN data_points
       THEN trendRet' = [op |-> "analyze_trends", user |-> u, at |-> now_day,
                         keys |-> {"error"}, used |-> <<>>]
       ELSE IF TooFewPoints(data_points[u])
            THEN trendRet' = [op |-> "analyze_trends", user |-> u, at |-> now_day,
                              keys |-> {"error"}, used |-> <<>>]
            ELSE trendRet' = [op |-> "analyze_trends", user |-> u, at |-> now_day,
                              keys |-> TrendKeys, used |-> data_points[u]]
    /\ UNCHANGED <<now_day, data_points>>
    /\ TrendFrame

TrendTick ==
    /\ \E t \in TrendInstants :
          /\ t > now_day
          /\ now_day' = t
    /\ UNCHANGED <<data_points, trendRet>>
    /\ TrendFrame

TrendNext ==
    \/ \E u \in Users, d \in MetricsIn : add_data_point(u, d)
    \/ \E u \in Users : analyze_trends(u)
    \/ TrendTick

(***************************************************************************)
(* BeeTrendAnalyzer: the dicts it stores are the caller's own               *)
(* add_data_point writes 'timestamp' into the dict it is given and appends  *)
(* that dict, not a copy. The dicts are modelled as objects of a heap and   *)
(* the lists as lists of references; the service's analyzer and the report  *)
(* generator's analyzer are two instances.                                  *)
(***************************************************************************)
NObjects == 2
MaxAliasPoints == 2
Objects == 1..NObjects
AliasUsers == {"u1"}
\* DataIntegrationService.trend_analyzer, BeekeepingReportGenerator.trend_analyzer
Analyzers == {"service", "report"}

AliasInit ==
    /\ heap = [o \in Objects |-> [bee_count |-> 10]]
    /\ series = [a \in Analyzers |-> [u \in AliasUsers |-> <<>>]]

\* trend_analyzer.py:25-33 for the dict o at time t: the heap and the list
\* after the call; `was` is history, the dict as it was when it was appended
AddObject(h, list, o, t) ==
    LET written == [h EXCEPT ![o] = [timestamp |-> t] @@ @]
        appended == Append(list, [obj |-> o, was |-> written[o]])
    IN  [heap |-> written,
         list |-> SelectSeq(appended, LAMBDA entry :
                      written[entry.obj].timestamp > t - trend_retention_days)]

\* trend_analyzer.py:20-33: a caller gives one of its dicts to an analyzer
add_object(a, u, o) ==
    /\ Len(series[a][u]) < MaxAliasPoints
    /\ LET r == AddObject(heap, series[a][u], o, now_day)
       IN  /\ heap' = r.heap
           /\ series' = [series EXCEPT ![a][u] = r.list]
    /\ UNCHANGED now_day
    /\ AliasFrame

\* data_intergration_service.py:47-57: process_new_data gives metrics_data to
\* its own analyzer (line 104) and then to the report generator, whose
\* analyzer stores it too (reporting_system.py:24); the clock is read once in
\* each add_data_point, the second time at `later`
process_metrics(u, o, later) ==
    /\ Len(series["service"][u]) < MaxAliasPoints
    /\ Len(series["report"][u]) < MaxAliasPoints
    /\ later >= now_day
    /\ LET first == AddObject(heap, series["service"][u], o, now_day)
           second == AddObject(first.heap, series["report"][u], o, later)
       IN  /\ heap' = second.heap
           /\ series' = [series EXCEPT !["service"][u] = first.list,
                                       !["report"][u] = second.list]
    /\ now_day' = later
    /\ AliasFrame

AliasTick ==
    /\ \E t \in TrendInstants :
          /\ t > now_day
          /\ now_day' = t
    /\ UNCHANGED <<heap, series>>
    /\ AliasFrame

AliasNext ==
    \/ \E a \in Analyzers, u \in AliasUsers, o \in Objects : add_object(a, u, o)
    \/ \E u \in AliasUsers, o \in Objects, later \in TrendInstants :
          process_metrics(u, o, later)
    \/ AliasTick

\* C14: an entry of a user's series has the timestamp and the metrics it had
\* when it was appended, whatever calls were made since, with the same dict
\* or another.
C14_StoredNeverChanged ==
    \A a \in Analyzers, u \in AliasUsers :
        \A i \in 1..Len(series[a][u]) :
            heap[series[a][u][i].obj] = series[a][u][i].was

(***************************************************************************)
(* DataIntegrationService: the data cache                                  *)
(* Cache entries carry their timestamp as text: isoformat() writes it,     *)
(* fromisoformat() reads it back. The text is modelled as the sequence of  *)
(* decimal digits of the instant.                                          *)
(***************************************************************************)
cache_retention_days == 30

MaxCache == 2
CacheInstants == {0, 1, 30, 31}
RangeBounds == {1, 30}
None == -1

\* data_intergration_service.py:174-178: thirty_days_ago = now - 30 days,
\* keep fromisoformat(timestamp) > thirty_days_ago
CachePrune(entries, now) ==
    SelectSeq(entries, LAMBDA entry :
        fromisoformat(entry.timestamp) > now - cache_retention_days)

CacheInit ==
    /\ data_cache = <<>>
    /\ cacheRet = [op |-> "none"]

\* data_intergration_service.py:155-168 with the _cleanup_cache it ends in;
\* ts is the 'timestamp' the caller's data holds, None when it holds none
update_cache(u, ts) ==
    /\ u \in DOMAIN data_cache => Len(data_cache[u]) < MaxCache
    /\ LET old == IF u \in DOMAIN data_cache THEN data_cache[u] ELSE <<>>
           entry == [timestamp |-> IF ts = None THEN isoformat(now_day)
                                   ELSE isoformat(ts)]
           kept == CachePrune(Append(old, entry), now_day)
       IN  /\ data_cache' = (u :> kept) @@ data_cache
           /\ cacheRet' = [op |-> "update_cache", user |-> u, at |-> now_day,
                           result |-> <<>>]
    /\ UNCHANGED now_day
    /\ CacheFrame

\* data_intergration_service.py:218-239; start_date, end_date may be None
get_filtered_data(u, start_date, end_date) ==
    /\ LET all == IF u \in DOMAIN data_cache THEN data_cache[u] ELSE <<>>
           from == IF start_date # None
                   THEN SelectSeq(all, LAMBDA entry :
                            fromisoformat(entry.timestamp) >= start_date)
                   ELSE all
           upto == IF end_date # None
                   THEN SelectSeq(from, LAMBDA entry :
                            fromisoformat(entry.timestamp) <= end_date)
                   ELSE from
       IN  cacheRet' = [op |-> "get_filtered_data", user |-> u, at |-> now_day,
                        start_date |-> start_date, end_date |-> end_date,
                        result |-> upto]
    /\ UNCHANGED <<now_day, data_cache>>
    /\ CacheFrame

CacheTick ==
    /\ \E t \in CacheInstants :
          /\ t > now_day
          /\ now_day' = t
    /\ UNCHANGED <<data_cache, cacheRet>>
    /\ CacheFrame

CacheNext ==
    \/ \E u \in Users, ts \in CacheInstants \cup {None} : update_cache(u, ts)
    \/ \E u \in Users, a \in RangeBounds \cup {None}, b \in RangeBounds \cup {None} :
          get_filtered_data(u, a, b)
    \/ CacheTick

(***************************************************************************)
(* The three pruning comprehensions, taken alone: each is applied to a     *)
(* list of timestamps drawn by Init, at a time drawn by Init.              *)
(***************************************************************************)
MaxPruneLen == 3
PruneNow == 400
PruneAges == {0, 29, 30, 31, 59, 60, 61, 364, 365, 366}

RECURSIVE SeqsUpTo(_, _)
SeqsUpTo(S, n) ==
    IF n = 0 THEN {<<>>}
    ELSE LET shorter == SeqsUpTo(S, n - 1)
         IN  shorter \cup {Append(q, x) : q \in shorter, x \in S}

\* no list given: the state of the prune study outside SpecPrune
PruneIdle ==
    /\ pIn = <<>>
    /\ pNow = PruneNow
    /\ pOut = [by |-> "none"]

PruneInit ==
    /\ pIn \in SeqsUpTo({PruneNow - a : a \in PruneAges}, MaxPruneLen)
    /\ pNow = PruneNow
    /\ pOut = [by |-> "none"]

\* rate_limiter.py:16-19 on a list of request times
ApplyRLPrune ==
    /\ pOut' = [by |-> "is_allowed", retention |-> time_window,
                kept |-> RLPrune(pIn, pNow)]
    /\ UNCHANGED <<pIn, pNow>>
    /\ PruneFrame

\* trend_analyzer.py:29-33 on a list of points
ApplyTrendPrune ==
    /\ LET points == [i \in 1..Len(pIn) |->
                         [timestamp |-> pIn[i], bee_count |-> 10]]
           kept == TrendPrune(points, pNow)
       IN  pOut' = [by |-> "add_data_point", retention |-> trend_retention_days,
                    kept |-> [i \in 1..Len(kept) |-> kept[i].timestamp]]
    /\ UNCHANGED <<pIn, pNow>>
    /\ PruneFrame

\* data_intergration_service.py:174-178 on a list of cache entries
ApplyCachePrune ==
    /\ LET entries == [i \in 1..Len(pIn) |-> [timestamp |-> isoformat(pIn[i])]]
           kept == CachePrune(entries, pNow)
       IN  pOut' = [by |-> "_cleanup_cache", retention |-> cache_retention_days,
                    kept |-> [i \in 1..Len(kept) |-> fromisoformat(kept[i].timestamp)]]
    /\ UNCHANGED <<pIn, pNow>>
    /\ PruneFrame

PruneNext ==
    \/ ApplyRLPrune
    \/ ApplyTrendPrune
    \/ ApplyCachePrune

(***************************************************************************)
(* Claims about pruning and about what readers see                         *)
(***************************************************************************)
RECURSIVE IsSubseq(_, _)
\* a is b with some elements left out, the others in b's order
IsSubseq(a, b) ==
    IF a = <<>> THEN TRUE
    ELSE IF b = <<>> THEN FALSE
    ELSE IF Head(a) = Head(b) THEN IsSubseq(Tail(a), Tail(b))
    ELSE IsSubseq(a, Tail(b))

Count(q, v) == Cardinality({i \in 1..Len(q) : q[i] = v})

\* C6: each of the three prunes, run at time now with retention W, keeps
\* exactly the entries with now - timestamp < W (every kept entry is younger
\* than W, every entry younger than W is kept as often as it was there) and
\* keeps them in their order.
C6_PruneExact ==
    pOut.by # "none" =>
        /\ \A i \in 1..Len(pOut.kept) : pNow - pOut.kept[i] < pOut.retention
        /\ \A i \in 1..Len(pIn) :
              pNow - pIn[i] < pOut.retention
                  => Count(pOut.kept, pIn[i]) = Count(pIn, pIn[i])
        /\ IsSubseq(pOut.kept, pIn)

\* C6 witness: a prune of a list that is not in time order and holds an entry
\* of age exactly W dropped that entry and kept another.
C6_Witness ==
    /\ pOut.by = "add_data_point"
    /\ \E i \in 1..Len(pIn) :
          /\ pNow - pIn[i] = pOut.retention
          /\ Count(pOut.kept, pIn[i]) = 0
    /\ \E i, j \in 1..Len(pIn) : i < j /\ pIn[i] > pIn[j]
    /\ Len(pOut.kept) >= 1
    /\ Len(pOut.kept) < Len(pIn)

\* C7: a reader never sees an expired entry: the list analyze_trends computes
\* from holds only points with now - timestamp < 365 days at the read, and
\* the date-range read of the cache returns only entries with
\* now - timestamp < 30 days at the read.
C7_ReadersSeeOnlyFresh ==
    /\ trendRet.op = "analyze_trends" =>
          \A i \in 1..Len(trendRet.used) :
              trendRet.at - trendRet.used[i].timestamp < trend_retention_days
    /\ cacheRet.op = "get_filtered_data" =>
          \A i \in 1..Len(cacheRet.result) :
              cacheRet.at - fromisoformat(cacheRet.result[i].timestamp)
                  < cache_retention_days

\* C23: the date-range read returns exactly the stored entries of the user
\* with start_date <= timestamp < end_date, in stored order (an absent bound
\* does not restrict), so an entry stamped exactly end_date is left out.
C23_HalfOpenRange ==
    cacheRet.op = "get_filtered_data" =>
        LET stored == IF cacheRet.user \in DOMAIN data_cache
                      THEN data_cache[cacheRet.user] ELSE <<>>
        IN  cacheRet.result =
                SelectSeq(stored, LAMBDA entry :
                    /\ cacheRet.start_date # None =>
                           fromisoformat(entry.timestamp) >= cacheRet.start_date
                    /\ cacheRet.end_date # None =>
                           fromisoformat(entry.timestamp) < cacheRet.end_date)

\* the number of points of user u that are inside the retention at time t
Retained(u, t) ==
    IF u \notin DOMAIN data_points THEN 0
    ELSE Cardinality({i \in 1..Len(data_points[u]) :
                         t - data_points[u][i].timestamp < trend_retention_days})

\* C8: analyze_trends for a user with fewer than 5 retained observations
\* returns the error result, with none of the fields of an analysis.
C8_InsufficientData ==
    (/\ trendRet.op = "analyze_trends"
     /\ Retained(trendRet.user, trendRet.at) < minimum_data_points)
        => /\ "error" \in trendRet.keys
           /\ trendRet.keys \cap TrendKeys = {}

(***************************************************************************)
(* Recommendation texts. A text is the sequence of its characters, so that *)
(* str.lower() and the `keyword in text` substring test are computed.      *)
(***************************************************************************)
UpperCase == <<"A", "B", "C", "D", "E", "F", "G", "H", "I", "J", "K", "L", "M",
               "N", "O", "P", "Q", "R", "S", "T", "U", "V", "W", "X", "Y", "Z">>
LowerCase == <<"a", "b", "c", "d", "e", "f", "g", "h", "i", "j", "k", "l", "m",
               "n", "o", "p", "q", "r", "s", "t", "u", "v", "w", "x", "y", "z">>

\* str.lower() on one character
LowerOf ==
    [c \in {UpperCase[i] : i \in 1..26} |->
        LowerCase[CHOOSE i \in 1..26 : UpperCase[i] = c]]

LowerChar(c) == IF c \in DOMAIN LowerOf THEN LowerOf[c] ELSE c

\* str.lower()
Lower(txt) == [i \in 1..Len(txt) |-> LowerChar(txt[i])]

\* `keyword in txt`
Contains(txt, keyword) ==
    \E i \in 1..(Len(txt) - Len(keyword) + 1) :
        \A j \in 1..Len(keyword) : txt[i + j - 1] = keyword[j]

\* any(keyword in rec.lower() for keyword in keywords)
AnyKeyword(rec, keywords) ==
    LET lowered == Lower(rec)
    IN  \E k \in 1..Len(keywords) : Contains(lowered, keywords[k])

RECURSIVE Insert(_, _, _)
\* x put behind every element whose key is not greater than its own
Insert(sorted, x, key) ==
    IF sorted = <<>> THEN <<x>>
    ELSE IF key[Head(sorted)] <= key[x]
         THEN <<Head(sorted)>> \o Insert(Tail(sorted), x, key)
         ELSE <<x>> \o sorted

RECURSIVE StableSort(_, _)
\* list.sort(key=...): a stable sort
StableSort(q, key) ==
    IF q = <<>> THEN <<>>
    ELSE Insert(StableSort(SubSeq(q, 1, Len(q) - 1), key), q[Len(q)], key)

RECURSIVE InsertBefore(_, _, _)
\* x put in front of the elements whose key equals its own
InsertBefore(sorted, x, key) ==
    IF sorted = <<>> THEN <<x>>
    ELSE IF key[Head(sorted)] < key[x]
         THEN <<Head(sorted)>> \o InsertBefore(Tail(sorted), x, key)
         ELSE <<x>> \o sorted

RECURSIVE UnstableSort(_, _)
\* a sort that does not keep the order of equal keys
UnstableSort(q, key) ==
    IF q = <<>> THEN <<>>
    ELSE InsertBefore(UnstableSort(SubSeq(q, 1, Len(q) - 1), key), q[Len(q)], key)

Range(q) == {q[i] : i \in 1..Len(q)}

RECURSIVE Flatten(_)
Flatten(lists) ==
    IF lists = <<>> THEN <<>> ELSE Head(lists) \o Flatten(Tail(lists))

(***************************************************************************)
(* BeeTrendAnalyzer: recommendations and their prioritisation              *)
(***************************************************************************)
\* trend_analyzer.py:158-162
ActivityDecreasingRecs ==
    <<<<"R", "e", "v", "i", "e", "w", " ", "r", "e", "c", "e", "n", "t", " ", "c", "h", "a", "n", "g", "e", "s", " ", "i", "n", " ", "e", "n", "v", "i", "r", "o", "n", "m", "e", "n", "t", " ", "o", "r", " ", "m", "a", "n", "a", "g", "e", "m", "e", "n", "t">>,
      <<"C", "h", "e", "c", "k", " ", "f", "o", "r", " ", "p", "o", "t", "e", "n", "t", "i", "a", "l", " ", "s", "t", "r", "e", "s", "s", "o", "r", "s", " ", "a", "f", "f", "e", "c", "t", "i", "n", "g", " ", "f", "o", "r", "a", "g", "i", "n", "g">>,
      <<"C", "o", "n", "s", "i", "d", "e", "r", " ", "s", "u", "p", "p", "l", "e", "m", "e", "n", "t", "a", "r", "y", " ", "f", "e", "e", "d", "i", "n", "g", " ", "i", "f", " ", "n", "e", "e", "d", "e", "d">>>>

\* trend_analyzer.py:164
VariableActivityRecs ==
    <<<<"I", "n", "v", "e", "s", "t", "i", "g", "a", "t", "e", " ", "c", "a", "u", "s", "e", "s", " ", "o", "f", " ", "v", "a", "r", "i", "a", "b", "l", "e", " ", "a", "c", "t", "i", "v", "i", "t", "y", " ", "l", "e", "v", "e", "l", "s">>>>

\* trend_analyzer.py:169-173
BelowOptimalRecs ==
    <<<<"R", "e", "v", "i", "e", "w", " ", "h", "i", "v", "e", " ", "m", "a", "n", "a", "g", "e", "m", "e", "n", "t", " ", "p", "r", "a", "c", "t", "i", "c", "e", "s">>,
      <<"A", "s", "s", "e", "s", "s", " ", "f", "o", "o", "d", " ", "s", "o", "u", "r", "c", "e", " ", "a", "v", "a", "i", "l", "a", "b", "i", "l", "i", "t", "y">>,
      <<"C", "o", "n", "s", "i", "d", "e", "r", " ", "c", "o", "l", "o", "n", "y", " ", "s", "t", "r", "e", "n", "g", "t", "h", " ", "a", "s", "s", "e", "s", "s", "m", "e", "n", "t">>>>

\* trend_analyzer.py:178-182
SeasonalRecs ==
    <<<<"P", "l", "a", "n", " ", "f", "o", "r", " ", "s", "e", "a", "s", "o", "n", "a", "l", " ", "v", "a", "r", "i", "a", "t", "i", "o", "n", "s", " ", "i", "n", " ", "f", "o", "r", "a", "g", "i", "n", "g", " ", "c", "o", "n", "d", "i", "t", "i", "o", "n", "s">>,
      <<"P", "r", "e", "p", "a", "r", "e", " ", "s", "u", "p", "p", "l", "e", "m", "e", "n", "t", "a", "r", "y", " ", "f", "e", "e", "d", "i", "n", "g", " ", "f", "o", "r", " ", "l", "o", "w", " ", "a", "c", "t", "i", "v", "i", "t", "y", " ", "p", "e", "r", "i", "o", "d", "s">>,
      <<"C", "o", "n", "s", "i", "d", "e", "r", " ", "s", "e", "a", "s", "o", "n", "a", "l", " ", "h", "i", "v", "e", " ", "m", "a", "n", "a", "g", "e", "m", "e", "n", "t", " ", "a", "d", "j", "u", "s", "t", "m", "e", "n", "t", "s">>>>

\* trend_analyzer.py:148-184; activity is "decreasing", "highly_variable" (a
\* trend that is not decreasing, of highly variable consistency) or "other"
generate_trend_recommendations(activity, below_optimal, seasonal_high) ==
    (IF activity = "decreasing" THEN ActivityDecreasingRecs
     ELSE IF activity = "highly_variable" THEN VariableActivityRecs
     ELSE <<>>)
    \o (IF below_optimal THEN BelowOptimalRecs ELSE <<>>)
    \o (IF seasonal_high THEN SeasonalRecs ELSE <<>>)

\* trend_analyzer.py:284-285
urgency_keywords ==
    <<[tag |-> "urgent",
       keywords |->
         <<<<"i", "m", "m", "e", "d", "i", "a", "t", "e">>,
           <<"c", "r", "i", "t", "i", "c", "a", "l">>,
           <<"u", "r", "g", "e", "n", "t">>,
           <<"r", "e", "q", "u", "i", "r", "e", "d">>>>],
      [tag |-> "important",
       keywords |->
         <<<<"r", "e", "v", "i", "e", "w">>,
           <<"c", "o", "n", "s", "i", "d", "e", "r">>,
           <<"a", "s", "s", "e", "s", "s">>,
           <<"m", "o", "n", "i", "t", "o", "r">>>>]>>

\* trend_analyzer.py:297, the sort key
urgency_order == [urgent |-> 0, important |-> 1, normal |-> 2]

\* trend_analyzer.py:289-294
UrgencyTag(rec) ==
    IF AnyKeyword(rec, urgency_keywords[1].keywords) THEN "urgent"
    ELSE IF AnyKeyword(rec, urgency_keywords[2].keywords) THEN "important"
    ELSE "normal"

\* the first five recommendations as they come
prioritize_unsorted(recs) ==
    SubSeq(recs, 1, IF Len(recs) < 5 THEN Len(recs) ELSE 5)

\* trend_analyzer.py:278-298; recs is trends['recommendations']
prioritize_recommendations(recs) ==
    LET prioritized == [i \in 1..Len(recs) |-> [tag |-> UrgencyTag(recs[i]), rec |-> recs[i]]]
        key == [x \in Range(prioritized) |-> urgency_order[x.tag]]
        sorted == StableSort(prioritized, key)
        top == SubSeq(sorted, 1, IF Len(sorted) < 5 THEN Len(sorted) ELSE 5)
    IN  [i \in 1..Len(top) |-> top[i].rec]

(***************************************************************************)
(* BeekeepingReportGenerator: the recommendations of a report              *)
(***************************************************************************)
\* reporting_system.py:105-109, in the order the dict is iterated
priority_keywords ==
    <<[priority |-> "high",
       keywords |->
         <<<<"i", "m", "m", "e", "d", "i", "a", "t", "e">>,
           <<"c", "r", "i", "t", "i", "c", "a", "l">>,
           <<"u", "r", "g", "e", "n", "t">>>>],
      [priority |-> "medium",
       keywords |->
         <<<<"i", "m", "p", "o", "r", "t", "a", "n", "t">>,
           <<"n", "e", "c", "e", "s", "s", "a", "r", "y">>,
           <<"s", "h", "o", "u", "l", "d">>>>],
      [priority |-> "low",
       keywords |->
         <<<<"c", "o", "n", "s", "i", "d", "e", "r">>,
           <<"m", "a", "y">>,
           <<"c", "o", "u", "l", "d">>>>]>>

\* reporting_system.py:133-138, in the order the dict is iterated
categories ==
    <<[category |-> "foraging",
       keywords |->
         <<<<"f", "o", "r", "a", "g", "e">>,
           <<"f", "o", "o", "d">>,
           <<"n", "e", "c", "t", "a", "r">>,
           <<"p", "o", "l", "l", "e", "n">>>>],
      [category |-> "health",
       keywords |->
         <<<<"d", "i", "s", "e", "a", "s", "e">>,
           <<"p", "e", "s", "t">>,
           <<"h", "e", "a", "l", "t", "h">>,
           <<"i", "n", "f", "e", "c", "t", "i", "o", "n">>>>],
      [category |-> "management",
       keywords |->
         <<<<"h", "i", "v", "e">>,
           <<"m", "a", "i", "n", "t", "e", "n", "a", "n", "c", "e">>,
           <<"c", "l", "e", "a", "n">>,
           <<"i", "n", "s", "p", "e", "c", "t">>>>],
      [category |-> "environment",
       keywords |->
         <<<<"w", "e", "a", "t", "h", "e", "r">>,
           <<"t", "e", "m", "p", "e", "r", "a", "t", "u", "r", "e">>,
           <<"r", "a", "i", "n">>,
           <<"s", "h", "a", "d", "e">>>>]>>

\* reporting_system.py:126
priority_order == [high |-> 0, medium |-> 1, low |-> 2]

\* reporting_system.py:113-117: the first priority one of whose keywords is
\* in the text, 'low' when there is none
InferPriority(rec) ==
    LET hit == [k \in 1..Len(priority_keywords) |->
                   AnyKeyword(rec, priority_keywords[k].keywords)]
    IN  IF \E k \in 1..Len(priority_keywords) : hit[k]
        THEN priority_keywords[CHOOSE k \in 1..Len(priority_keywords) :
                 /\ hit[k]
                 /\ \A j \in 1..(k - 1) : ~hit[j]
             ].priority
        ELSE "low"

\* reporting_system.py:131-143
categorize_recommendation(rec) ==
    LET hit == [k \in 1..Len(categories) |-> AnyKeyword(rec, categories[k].keywords)]
    IN  IF \E k \in 1..Len(categories) : hit[k]
        THEN categories[CHOOSE k \in 1..Len(categories) :
                 /\ hit[k]
                 /\ \A j \in 1..(k - 1) : ~hit[j]
             ].category
        ELSE "general"

\* reporting_system.py:111-123: one dict for every text of every list
AllRecommendations(recommendation_lists) ==
    LET recs == Flatten(recommendation_lists)
    IN  [i \in 1..Len(recs) |->
            [recommendation |-> recs[i],
             priority |-> InferPriority(recs[i]),
             category |-> categorize_recommendation(recs[i])]]

\* a priority sort that does not keep the order of equal priorities
SortByPriorityUnstable(all_recommendations) ==
    UnstableSort(all_recommendations,
                 [x \in Range(all_recommendations) |-> priority_order[x.priority]])

\* reporting_system.py:126-127
SortByPriority(all_recommendations) ==
    StableSort(all_recommendations,
               [x \in Range(all_recommendations) |-> priority_order[x.priority]])

\* reporting_system.py:102-129
compile_recommendations(recommendation_lists) ==
    SortByPriority(AllRecommendations(recommendation_lists))

\* reporting_system.py:88-100 with knowledge_base.py:178-202: the dict of
\* get_foraging_recommendations has the keys timing, management and alerts and
\* no key 'recommendations', so .get('recommendations', []) is the empty list
EnvironmentalRecommendations == <<>>

MaxMediaRecs == 2
MaxFullMediaRecs == 1
NotCompiled == <<[pending |-> TRUE]>>
NotGenerated == [pending |-> TRUE]
\* {}
EmptyDict == <<>>
\* what media_analysis['recommendations'] may hold
MediaRecsIn ==
    {<<"U", "r", "g", "e", "n", "t", ":", " ", "i", "n", "s", "p", "e", "c", "t", " ", "h", "i", "v", "e">>,
     <<"u", "r", "g", "e", "n", "t", ":", " ", "i", "n", "s", "p", "e", "c", "t", " ", "h", "i", "v", "e", " ">>,
     <<"Y", "o", "u", " ", "s", "h", "o", "u", "l", "d", " ", "a", "d", "d", " ", "s", "h", "a", "d", "e">>}

ActivityIn == {"decreasing", "highly_variable", "other"}

\* the points the report generator's analyzer holds for the user before the
\* call, all of them younger than the retention
ReportPointsIn == {0, 3, 4}

\* environmental_data: None, a dict with a number as 'temperature', or a dict
\* with a text as 'temperature'
NoEnv == [given |-> FALSE, numeric |-> TRUE, temperature |-> 0]
EnvIn ==
    {NoEnv,
     [given |-> TRUE, numeric |-> TRUE, temperature |-> 15],
     [given |-> TRUE, numeric |-> FALSE, temperature |-> 0]}

ReportUser == "u1"

\* the arguments of one call and what the analysis of the user's points finds:
\*   points         points stored for the user before the call
\*   activity       "decreasing", "highly_variable" or "other" (see above)
\*   rising         activity_trend['trend_direction'] is 'increasing'
\*   below_optimal  productivity_trend['comparison_to_optimal'] is
\*                  'below_optimal' (otherwise it is 'optimal')
\*   yield_falling  productivity_trend['trend_direction'] is 'decreasing'
\*   seasonal_high  seasonal_pattern['seasonal_variation'] > 0.5
\*   media          media_analysis['recommendations'] (media_analysis is None
\*                  when the list is empty)
\*   media_items    whether the items of that list are str or dict
\*   env            environmental_data
ReportInputs ==
    [points : ReportPointsIn,
     activity : ActivityIn,
     rising : BOOLEAN,
     below_optimal : BOOLEAN,
     yield_falling : BOOLEAN,
     seasonal_high : BOOLEAN,
     media : SeqsUpTo(MediaRecsIn, MaxMediaRecs),
     media_items : {"str", "dict"},
     env : EnvIn]

\* trend_analyzer.py:26 and 41: the point of this call is appended, then the
\* length is tested
TrendsFailed(in) == in.points + 1 < minimum_data_points

\* one record for each combination that can occur
ConsistentInput(in) ==
    /\ TrendsFailed(in) => /\ in.activity = "other"
                           /\ ~in.rising
                           /\ ~in.below_optimal
                           /\ ~in.yield_falling
                           /\ ~in.seasonal_high
    /\ in.activity = "decreasing" => ~in.rising
    /\ in.media = <<>> => in.media_items = "str"

\* the inputs of the declared types: List[str] recommendations, a numeric
\* temperature
WellTyped(in) ==
    /\ in.media_items = "str"
    /\ in.env.given => in.env.numeric

\* trend_analyzer.py:35-62, the dict returned by analyze_trends
Trends(in) ==
    IF TrendsFailed(in)
    THEN [error |-> "Insufficient data for trend analysis"]
    ELSE [activity_trend |->
              [trend_direction |-> IF in.activity = "decreasing" THEN "decreasing"
                                   ELSE IF in.rising THEN "increasing"
                                   ELSE "stable",
               consistency |-> IF in.activity = "highly_variable"
                               THEN "highly_variable" ELSE "consistent"],
          productivity_trend |->
              [trend_direction |-> IF in.yield_falling THEN "decreasing" ELSE "stable",
               comparison_to_optimal |-> IF in.below_optimal THEN "below_optimal"
                                         ELSE "optimal"],
          seasonal_pattern |-> [seasonal_variation_high |-> in.seasonal_high],
          recommendations |->
              generate_trend_recommendations(in.activity, in.below_optimal,
                                             in.seasonal_high)]

\* dict.get(key, default)
Get(dict, key, default) == IF key \in DOMAIN dict THEN dict[key] ELSE default

\* what dict.get(key) gives where the key is missing and the values are texts
NoValue == "None"

RECURSIVE SumSeq(_)
SumSeq(q) == IF q = <<>> THEN 0 ELSE Head(q) + SumSeq(Tail(q))

\* an indicator that is 1 for a fall as well
UnsignedIndicator(value, up, down) ==
    IF value = up \/ value = down THEN 1 ELSE 0

\* trend_analyzer.py:206-211 and 214-219
SignedIndicator(value, up, down) ==
    IF value = up THEN 1 ELSE IF value = down THEN -1 ELSE 0

\* a status that does not test for the error dict: no indicator, average 0
determine_overall_status_unchecked(trends) ==
    IF "error" \in DOMAIN trends THEN "fair" ELSE "good"

\* buckets in which a mean of one half is good
StatusOfMeanWide(sum, n) ==
    IF 10 * sum > 5 * n THEN "excellent"
    ELSE IF sum > 0 THEN "good"
    ELSE IF 10 * sum > -3 * n THEN "fair"
    ELSE "needs_attention"

\* trend_analyzer.py:223-229 for avg_indicator = sum / n
StatusOfMean(sum, n) ==
    IF 10 * sum > 3 * n THEN "excellent"
    ELSE IF sum > 0 THEN "good"
    ELSE IF 10 * sum > -3 * n THEN "fair"
    ELSE "needs_attention"

\* trend_analyzer.py:198-229; np.mean(status_indicators) is sum / n
determine_overall_status(trends) ==
    IF "error" \in DOMAIN trends THEN "unknown"
    ELSE LET status_indicators ==
                 (IF "activity_trend" \in DOMAIN trends
                  THEN <<SignedIndicator(
                             Get(trends.activity_trend, "trend_direction", NoValue),
                             "increasing", "decreasing")>>
                  ELSE <<>>)
              \o (IF "productivity_trend" \in DOMAIN trends
                  THEN <<SignedIndicator(
                             Get(trends.productivity_trend, "comparison_to_optimal", NoValue),
                             "above_optimal", "below_optimal")>>
                  ELSE <<>>)
             n == IF status_indicators = <<>> THEN 1 ELSE Len(status_indicators)
         IN  StatusOfMean(SumSeq(status_indicators), n)

\* trend_analyzer.py:231-247 (the levels, which are numbers, left out)
extract_key_metrics(trends) ==
    (IF "activity_trend" \in DOMAIN trends
     THEN [activity |->
              [trend |-> Get(trends.activity_trend, "trend_direction", NoValue)]]
     ELSE EmptyDict)
    @@ (IF "productivity_trend" \in DOMAIN trends
        THEN [productivity |->
                 [status |-> Get(trends.productivity_trend, "comparison_to_optimal",
                                 NoValue)]]
        ELSE EmptyDict)

\* trend_analyzer.py:249-276
generate_outlook(trends) ==
    IF "error" \in DOMAIN trends THEN "insufficient_data"
    ELSE LET activity == "activity_trend" \in DOMAIN trends
             productivity == "productivity_trend" \in DOMAIN trends
             positive_indicators ==
                 (IF /\ activity
                     /\ Get(trends.activity_trend, "trend_direction", NoValue) = "increasing"
                  THEN 1 ELSE 0)
               + (IF /\ productivity
                     /\ Get(trends.productivity_trend, "trend_direction", NoValue)
                            # "decreasing"
                  THEN 1 ELSE 0)
             total_indicators ==
                 (IF activity THEN 1 ELSE 0) + (IF productivity THEN 1 ELSE 0)
         IN  IF total_indicators = 0 THEN "uncertain"
             ELSE IF 10 * positive_indicators > 7 * total_indicators THEN "positive"
             ELSE IF 10 * positive_indicators > 3 * total_indicators THEN "stable"
             ELSE "cautious"

\* trend_analyzer.py:186-196 (the timestamp left out)
get_status_summary(trends) ==
    [current_status |-> determine_overall_status(trends),
     key_metrics |-> extract_key_metrics(trends),
     short_term_outlook |-> generate_outlook(trends),
     immediate_actions |->
         IF "recommendations" \in DOMAIN trends
         THEN prioritize_recommendations(trends.recommendations)
         ELSE <<>>]

\* what a call gives back to its caller: a value, or an exception
Return(value) == [raised |-> FALSE, value |-> value]
Raise(exception) == [raised |-> TRUE, exception |-> exception]

\* reporting_system.py:75-86
analyze_media(in) ==
    IF in.media = <<>> THEN EmptyDict
    ELSE [type |-> "unknown",
          findings |-> EmptyDict,
          activity_metrics |-> EmptyDict,
          identified_issues |-> <<>>,
          recommendations |-> in.media]

\* reporting_system.py:202-220 with knowledge_base.py:24-27
assess_environmental_impact(env) ==
    IF env.temperature < 20 THEN "Temperature below optimal foraging range"
    ELSE IF env.temperature > 35 THEN "Temperature above optimal foraging range"
    ELSE "Environmental conditions within acceptable range"

\* reporting_system.py:88-100; knowledge_base.py:190 compares the temperature
\* with a number, which raises TypeError for a text
analyze_environmental_data(env) ==
    IF ~env.given THEN Return(EmptyDict)
    ELSE IF ~env.numeric THEN Raise("TypeError")
    ELSE Return([conditions |-> [temperature |-> env.temperature],
                 impact_assessment |-> assess_environmental_impact(env),
                 recommendations |-> EnvironmentalRecommendations])

\* reporting_system.py:54-59: the four lists handed to _compile_recommendations
RecommendationLists(in) ==
    LET trends == Trends(in)
    IN  <<get_status_summary(trends).immediate_actions,
          Get(trends, "recommendations", <<>>),
          Get(analyze_media(in), "recommendations", <<>>),
          EnvironmentalRecommendations>>

\* reporting_system.py:157-174
extract_key_findings(current_status, activity_trends, environmental_analysis) ==
    <<[finding |-> "Hive status is", value |-> current_status]>>
    \o (IF "trend_direction" \in DOMAIN activity_trends
        THEN <<[finding |-> "Activity is", value |-> activity_trends.trend_direction]>>
        ELSE <<>>)
    \o (IF "impact_assessment" \in DOMAIN environmental_analysis
        THEN <<[finding |-> "impact", value |-> environmental_analysis.impact_assessment]>>
        ELSE <<>>)

\* a summary whose priority actions are the first three recommendations of
\* any priority
generate_report_summary_any(current_status, outlook, activity_trends, environmental_analysis, recs) ==
    [status |-> current_status,
     outlook |-> outlook,
     key_findings |-> extract_key_findings(current_status, activity_trends,
                                           environmental_analysis),
     priority_actions |->
         [i \in 1..(IF Len(recs) < 3 THEN Len(recs) ELSE 3) |-> recs[i].recommendation]]

\* reporting_system.py:145-155
generate_report_summary(current_status, outlook, activity_trends, environmental_analysis, recs) ==
    LET high == SelectSeq(recs, LAMBDA rec : rec.priority = "high")
    IN  [status |-> current_status,
         outlook |-> outlook,
         key_findings |-> extract_key_findings(current_status, activity_trends,
                                               environmental_analysis),
         priority_actions |->
             [i \in 1..(IF Len(high) < 3 THEN Len(high) ELSE 3) |->
                 high[i].recommendation]]

\* reporting_system.py:23-65, the body of the try statement
ReportBody(in) ==
    LET trends == Trends(in)
        status == get_status_summary(trends)
        media_insights == analyze_media(in)
        environmental == analyze_environmental_data(in.env)
    IN  IF environmental.raised THEN environmental
        \* line 115: rec.lower() of an item that is not a str
        ELSE IF in.media # <<>> /\ in.media_items = "dict" THEN Raise("AttributeError")
        ELSE LET recs == compile_recommendations(RecommendationLists(in))
                 activity_trends == Get(trends, "activity_trend", EmptyDict)
             IN  Return(
                   [report_id |-> [prefix |-> "BEE", user_id |-> ReportUser,
                                   minute |-> isoformat(now_day)],
                    generated_at |-> isoformat(now_day),
                    hive_status |-> [current_status |-> status.current_status,
                                     key_metrics |-> status.key_metrics,
                                     outlook |-> status.short_term_outlook],
                    trend_analysis |->
                        [activity_trends |-> activity_trends,
                         productivity_trends |-> Get(trends, "productivity_trend", EmptyDict),
                         seasonal_patterns |-> Get(trends, "seasonal_pattern", EmptyDict)],
                    media_analysis |-> media_insights,
                    environmental_analysis |-> environmental.value,
                    recommendations |-> recs,
                    summary |-> generate_report_summary(
                                    status.current_status, status.short_term_outlook,
                                    activity_trends, environmental.value, recs)])

\* a call whose exceptions reach the caller
Propagate(body) == IF body.raised THEN body ELSE body.value

\* reporting_system.py:22 and 67-73: try ... except Exception
TryExcept(body) ==
    IF body.raised
    THEN [error |-> "Report generation failed",
          details |-> body.exception,
          timestamp |-> isoformat(now_day)]
    ELSE body.value

\* reporting_system.py:16-73
generate_comprehensive_report ==
    /\ report = NotGenerated
    /\ LET body == ReportBody(repIn)
       IN  /\ report' = TryExcept(body)
           /\ recArgs' = IF repIn.env.given /\ ~repIn.env.numeric THEN <<>>
                         ELSE RecommendationLists(repIn)
           /\ recommendations' = IF body.raised THEN NotCompiled
                                 ELSE body.value.recommendations
    /\ UNCHANGED <<repIn, remerged>>
    /\ ReportFrame

Compiled == recommendations # NotCompiled

\* reporting_system.py:111-115 for a list whose items are the dicts that
\* _compile_recommendations returns: rec.lower() of the first one raises
compile_structured(rec_list) ==
    IF rec_list = <<>> THEN Return(<<>>) ELSE Raise("AttributeError")

\* _compile_recommendations(report['recommendations']): the merge applied to
\* its own output
compile_again ==
    /\ Compiled
    /\ remerged = NotGenerated
    /\ remerged' = compile_structured(recommendations)
    /\ UNCHANGED <<repIn, recArgs, recommendations, report>>
    /\ ReportFrame

ReportNext == generate_comprehensive_report

FullReportNext ==
    \/ generate_comprehensive_report
    \/ compile_again

IdleInput ==
    [points |-> 0, activity |-> "other", rising |-> FALSE, below_optimal |-> FALSE,
     yield_falling |-> FALSE, seasonal_high |-> FALSE, media |-> <<>>,
     media_items |-> "str", env |-> NoEnv]

\* no call pending: the state of the report study outside its specifications
ReportIdle ==
    /\ repIn = IdleInput
    /\ recArgs = <<>>
    /\ recommendations = NotCompiled
    /\ report = NotGenerated
    /\ remerged = NotGenerated

\* calls with well-typed arguments and no environmental data, over all the
\* recommendation lists
ReportInit ==
    /\ repIn \in {in \in ReportInputs :
                     /\ ConsistentInput(in)
                     /\ WellTyped(in)
                     /\ in.points >= 3
                     /\ ~in.rising /\ ~in.yield_falling
                     /\ in.env = NoEnv}
    /\ recArgs = <<>>
    /\ recommendations = NotCompiled
    /\ report = NotGenerated
    /\ remerged = NotGenerated

\* calls with every kind of argument, media lists of at most MaxFullMediaRecs
\* texts
FullReportInit ==
    /\ repIn \in {in \in ReportInputs : ConsistentInput(in) /\ Len(in.media) <= MaxFullMediaRecs}
    /\ recArgs = <<>>
    /\ recommendations = NotCompiled
    /\ report = NotGenerated
    /\ remerged = NotGenerated

MaxSummaryMediaRecs == 4

\* calls for a user with enough history and media lists of up to
\* MaxSummaryMediaRecs texts, so that a report can hold more than three
\* high-priority recommendations
SummaryReportInit ==
    /\ repIn \in [points : {4},
                  activity : {"decreasing", "other"},
                  rising : {FALSE},
                  below_optimal : {FALSE},
                  yield_falling : {FALSE},
                  seasonal_high : {FALSE},
                  media : SeqsUpTo(MediaRecsIn, MaxSummaryMediaRecs),
                  media_items : {"str"},
                  env : {NoEnv}]
    /\ recArgs = <<>>
    /\ recommendations = NotCompiled
    /\ report = NotGenerated
    /\ remerged = NotGenerated

RECURSIVE Strip(_)
\* str.strip(): blanks at both ends removed
Strip(txt) ==
    IF txt = <<>> THEN txt
    ELSE IF Head(txt) = " " THEN Strip(Tail(txt))
    ELSE IF txt[Len(txt)] = " " THEN Strip(SubSeq(txt, 1, Len(txt) - 1))
    ELSE txt

Normalized(txt) == Strip(Lower(txt))

\* C9: the merged recommendations of a report hold no two entries with the
\* same lower-cased, trimmed text.
C9_NoDuplicates ==
    Compiled =>
        \A i, j \in 1..Len(recommendations) :
            i # j => Normalized(recommendations[i].recommendation)
                        # Normalized(recommendations[j].recommendation)

WithPriority(recs, p) == SelectSeq(recs, LAMBDA r : r.priority = p)

\* C10: the merged list is ordered by priority rank high < medium < low, and
\* the recommendations of one priority stand in their input order (order of
\* the argument lists, then position inside a list).
C10_StablePriorityOrder ==
    Compiled =>
        /\ \A i, j \in 1..Len(recommendations) :
              i < j => priority_order[recommendations[i].priority]
                          <= priority_order[recommendations[j].priority]
        /\ \A p \in {"high", "medium", "low"} :
              LET kept == WithPriority(recommendations, p)
                  given == SelectSeq(Flatten(recArgs), LAMBDA t : InferPriority(t) = p)
              IN  [i \in 1..Len(kept) |-> kept[i].recommendation] = given

\* C10 witness: a report compiled from trend and media recommendations whose
\* list holds all three priorities and several different low texts, which
\* come from more than one argument list.
C10_Witness ==
    /\ Compiled
    /\ \A p \in {"high", "medium", "low"} : WithPriority(recommendations, p) # <<>>
    /\ Cardinality(Range(WithPriority(recommendations, "low"))) >= 2
    /\ recArgs[1] # <<>> /\ recArgs[2] # <<>> /\ recArgs[3] # <<>>

(***************************************************************************)
(* Claims about the whole report, checked under SpecFullReport             *)
(***************************************************************************)
Generated == report # NotGenerated

NoDuplicateTexts(texts) ==
    \A i, j \in 1..Len(texts) : i # j => Normalized(texts[i]) # Normalized(texts[j])

\* C11: for argument lists that hold no text twice, _compile_recommendations
\* applied to the list it returned returns that same list, in the same order:
\* merge(merge(X)) = merge(X).
C11_MergeIdempotent ==
    (/\ Compiled
     /\ NoDuplicateTexts(Flatten(recArgs))
     /\ remerged # NotGenerated)
        => /\ ~remerged.raised
           /\ remerged.value = recommendations

FullReportKeys ==
    {"report_id", "generated_at", "hive_status", "trend_analysis", "media_analysis",
     "environmental_analysis", "recommendations", "summary"}

ErrorResultKeys == {"error", "details", "timestamp"}

\* C12: a call with arguments of the declared types for a user whose points,
\* the one of this call included, are fewer than minimum_data_points returns
\* a report with all eight fields, the three trend sections empty, status
\* 'unknown' and outlook 'insufficient_data', and not the error result.
C12_InsufficientHistoryReport ==
    (Generated /\ TrendsFailed(repIn) /\ WellTyped(repIn))
        => /\ DOMAIN report = FullReportKeys
           /\ report.trend_analysis.activity_trends = EmptyDict
           /\ report.trend_analysis.productivity_trends = EmptyDict
           /\ report.trend_analysis.seasonal_patterns = EmptyDict
           /\ report.hive_status.current_status = "unknown"
           /\ report.hive_status.outlook = "insufficient_data"
           /\ report.summary.status = "unknown"
           /\ report.summary.outlook = "insufficient_data"

\* C12 witness: a report was returned for a user with three earlier points,
\* with a media recommendation and environmental data in it.
C12_Witness ==
    /\ Generated
    /\ repIn.points = 3
    /\ WellTyped(repIn)
    /\ repIn.env.given
    /\ DOMAIN report = FullReportKeys
    /\ Len(report.recommendations) = 1

\* C13: what generate_comprehensive_report returns is a dict with exactly
\* the eight report fields or a dict with exactly error, details and
\* timestamp; an exception raised inside is never what the caller gets.
C13_FullOrTaggedError ==
    Generated =>
        \/ /\ DOMAIN report = FullReportKeys
           /\ DOMAIN report.hive_status = {"current_status", "key_metrics", "outlook"}
           /\ DOMAIN report.trend_analysis =
                  {"activity_trends", "productivity_trends", "seasonal_patterns"}
           /\ DOMAIN report.summary =
                  {"status", "outlook", "key_findings", "priority_actions"}
        \/ DOMAIN report = ErrorResultKeys

\* C13 witness: a call whose body raised (a text as temperature, or media
\* recommendations that are not texts) returned the error result.
C13_Witness ==
    /\ Generated
    /\ ~WellTyped(repIn)
    /\ DOMAIN report = ErrorResultKeys
    /\ report.details \in {"TypeError", "AttributeError"}

\* the places of the high-priority entries of a list of recommendations
HighPlaces(recs) == {k \in 1..Len(recs) : recs[k].priority = "high"}

\* C28: summary.priority_actions holds the texts of the first three
\* high-priority entries of report['recommendations'] in their order, all of
\* them when they are fewer than three, and nothing else.
C28_PriorityActions ==
    (Generated /\ "summary" \in DOMAIN report) =>
        LET recs == report.recommendations
            out == report.summary.priority_actions
            high == HighPlaces(recs)
        IN  /\ Len(out) = (IF Cardinality(high) < 3 THEN Cardinality(high) ELSE 3)
            /\ \A i \in 1..Len(out) :
                  \E k \in high :
                      /\ Cardinality({j \in high : j <= k}) = i
                      /\ out[i] = recs[k].recommendation

\* C28 witness: a report with four high-priority recommendations and others
\* of lower priority has three priority actions.
C28_Witness ==
    /\ Generated
    /\ "summary" \in DOMAIN report
    /\ Cardinality(HighPlaces(report.recommendations)) = 4
    /\ \E k \in 1..Len(report.recommendations) : report.recommendations[k].priority # "high"
    /\ Len(report.summary.priority_actions) = 3
    /\ report.summary.priority_actions[1] # report.summary.priority_actions[2]

(***************************************************************************)
(* BeeTrendAnalyzer.add_data_point called by several threads               *)
(* The method takes no lock. Its statements are the steps: the membership  *)
(* test (line 22), the creation of the list (23), the append (25-26), the  *)
(* evaluation of the comprehension (29-33) and the assignment of its       *)
(* result (30).                                                            *)
(***************************************************************************)
MaxAdds == 3

TrendConcInit ==
    /\ taPc = [t \in Threads |-> "idle"]
    /\ taUser = [t \in Threads |-> NoUser]
    /\ taData = [t \in Threads |-> [bee_count |-> 0]]
    /\ taKept = [t \in Threads |-> <<>>]
    /\ taLog = <<>>

AddsInFlight == Cardinality({t \in Threads : taPc[t] # "idle"})

\* a thread calls add_data_point(user_id, data)
AddCall(t, u, data) ==
    /\ taPc[t] = "idle"
    /\ Len(taLog) + AddsInFlight < MaxAdds
    /\ taPc' = [taPc EXCEPT ![t] = "test"]
    /\ taUser' = [taUser EXCEPT ![t] = u]
    /\ taData' = [taData EXCEPT ![t] = data]
    /\ UNCHANGED <<now_day, data_points, taKept, taLog>>
    /\ TrendConcFrame

\* line 22: if user_id not in self.data_points
AddTest(t) ==
    /\ taPc[t] = "test"
    /\ taPc' = [taPc EXCEPT ![t] =
                   IF taUser[t] \in DOMAIN data_points THEN "append" ELSE "create"]
    /\ UNCHANGED <<now_day, data_points, taUser, taData, taKept, taLog>>
    /\ TrendConcFrame

\* line 23: self.data_points[user_id] = []
AddCreate(t) ==
    /\ taPc[t] = "create"
    /\ data_points' = (taUser[t] :> <<>>) @@ data_points
    /\ taPc' = [taPc EXCEPT ![t] = "append"]
    /\ UNCHANGED <<now_day, taUser, taData, taKept, taLog>>
    /\ TrendConcFrame

\* lines 25-26: the timestamp is written, the point appended to the list
\* that the dict holds now
AddAppend(t) ==
    /\ taPc[t] = "append"
    /\ taData' = [taData EXCEPT ![t] = [timestamp |-> now_day] @@ @]
    /\ data_points' = [data_points EXCEPT ![taUser[t]] = Append(@, taData'[t])]
    /\ taPc' = [taPc EXCEPT ![t] = "filter"]
    /\ UNCHANGED <<now_day, taUser, taKept, taLog>>
    /\ TrendConcFrame

\* lines 29-33: the comprehension builds the list of the points to keep
AddFilter(t) ==
    /\ taPc[t] = "filter"
    /\ taKept' = [taKept EXCEPT ![t] = TrendPrune(data_points[taUser[t]], now_day)]
    /\ taPc' = [taPc EXCEPT ![t] = "assign"]
    /\ UNCHANGED <<now_day, data_points, taUser, taData, taLog>>
    /\ TrendConcFrame

\* line 30: self.data_points[user_id] = that list; the call returns
AddAssign(t) ==
    /\ taPc[t] = "assign"
    /\ data_points' = [data_points EXCEPT ![taUser[t]] = taKept[t]]
    /\ taLog' = Append(taLog, [user |-> taUser[t], point |-> taData[t]])
    /\ taPc' = [taPc EXCEPT ![t] = "idle"]
    /\ taUser' = [taUser EXCEPT ![t] = NoUser]
    /\ taData' = [taData EXCEPT ![t] = [bee_count |-> 0]]
    /\ taKept' = [taKept EXCEPT ![t] = <<>>]
    /\ UNCHANGED now_day
    /\ TrendConcFrame

TrendConcTick ==
    /\ \E t \in TrendInstants :
          /\ t > now_day
          /\ now_day' = t
    /\ UNCHANGED <<data_points, taPc, taUser, taData, taKept, taLog>>
    /\ TrendConcFrame

TrendConcNext ==
    \/ \E t \in Threads, u \in AliasUsers, data \in MetricsIn : AddCall(t, u, data)
    \/ \E t \in Threads : AddTest(t)
    \/ \E t \in Threads : AddCreate(t)
    \/ \E t \in Threads : AddAppend(t)
    \/ \E t \in Threads : AddFilter(t)
    \/ \E t \in Threads : AddAssign(t)
    \/ TrendConcTick

\* the points the returned calls appended for user u
AppendedFor(u) ==
    LET mine == SelectSeq(taLog, LAMBDA call : call.user = u)
    IN  [i \in 1..Len(mine) |-> mine[i].point]

\* C15: when every add_data_point call has returned, the user's list holds
\* each point that a call appended and that is younger than the retention,
\* as many times as it was appended.
C15_NoLostObservation ==
    (\A t \in Threads : taPc[t] = "idle") =>
        \A u \in AliasUsers :
            \A i \in 1..Len(AppendedFor(u)) :
                LET point == AppendedFor(u)[i]
                IN  now_day - point.timestamp < trend_retention_days
                        => /\ u \in DOMAIN data_points
                           /\ Count(data_points[u], point)
                                  >= Count(AppendedFor(u), point)

(***************************************************************************)
(* SessionManager called by several threads                                *)
(* The manager takes no lock. The steps are the statements of              *)
(* create_session, get_session and end_session. A session dict has an      *)
(* identity (oid): get_session holds a reference to the dict it read.      *)
(***************************************************************************)
MaxSessCalls == 3

SessConcInit ==
    /\ scPc = [t \in Threads |-> "idle"]
    /\ scOp = [t \in Threads |-> "none"]
    /\ scUser = [t \in Threads |-> NoUser]
    /\ scLocal = [t \in Threads |-> NoSession]
    /\ scCalls = 0
    /\ nextOid = 1
    /\ scFaults = {}

\* id(session): the identity of a session dict (0 for one no thread of this
\* section created)
Oid(session) == IF "oid" \in DOMAIN session THEN session.oid ELSE 0

\* the call of thread t returns
SessReturn(t) ==
    /\ scPc' = [scPc EXCEPT ![t] = "idle"]
    /\ scOp' = [scOp EXCEPT ![t] = "none"]
    /\ scUser' = [scUser EXCEPT ![t] = NoUser]
    /\ scLocal' = [scLocal EXCEPT ![t] = NoSession]

\* a thread calls create_session, get_session or end_session
SessCall(t, op, u) ==
    /\ scPc[t] = "idle"
    /\ scCalls < MaxSessCalls
    /\ scCalls' = scCalls + 1
    /\ scPc' = [scPc EXCEPT ![t] = IF op = "create_session" THEN "store"
                                   ELSE IF op = "get_session" THEN "read"
                                   ELSE "end_test"]
    /\ scOp' = [scOp EXCEPT ![t] = op]
    /\ scUser' = [scUser EXCEPT ![t] = u]
    /\ UNCHANGED <<now_min, sessions, scLocal, nextOid, scFaults>>
    /\ SessConcFrame

\* lines 12-23: the new dict is stored in the table
SessStore(t, c) ==
    /\ scPc[t] = "store"
    /\ sessions' = [sessions EXCEPT ![scUser[t]] =
                       [oid |-> nextOid] @@ NewSession(scUser[t], c)]
    /\ nextOid' = nextOid + 1
    /\ SessReturn(t)
    /\ UNCHANGED <<now_min, scCalls, scFaults>>
    /\ SessConcFrame

\* lines 27-28: session = self.sessions.get(user_id); None is returned when
\* there is none
SessRead(t) ==
    /\ scPc[t] = "read"
    /\ IF sessions[scUser[t]] = NoSession
       THEN SessReturn(t)
       ELSE /\ scLocal' = [scLocal EXCEPT ![t] = sessions[scUser[t]]]
            /\ scPc' = [scPc EXCEPT ![t] = "valid"]
            /\ UNCHANGED <<scOp, scUser>>
    /\ UNCHANGED <<now_min, sessions, scCalls, nextOid, scFaults>>
    /\ SessConcFrame

\* line 29: if self._is_session_valid(session)
SessValid(t) ==
    /\ scPc[t] = "valid"
    /\ scPc' = [scPc EXCEPT ![t] =
                   IF IsSessionValid(scLocal[t]) THEN "touch" ELSE "end_test"]
    /\ UNCHANGED <<now_min, sessions, scOp, scUser, scLocal, scCalls, nextOid, scFaults>>
    /\ SessConcFrame

\* lines 30-31: last_activity is written into the dict that was read, which
\* is in the table only if no other call replaced or removed it
SessTouch(t) ==
    /\ scPc[t] = "touch"
    /\ sessions' = IF /\ sessions[scUser[t]] # NoSession
                      /\ Oid(sessions[scUser[t]]) = Oid(scLocal[t])
                   THEN [sessions EXCEPT ![scUser[t]] = Touch(@)]
                   ELSE sessions
    /\ SessReturn(t)
    /\ UNCHANGED <<now_min, scCalls, nextOid, scFaults>>
    /\ SessConcFrame

\* line 67: if user_id in self.sessions
SessEndTest(t) ==
    /\ scPc[t] = "end_test"
    /\ IF sessions[scUser[t]] = NoSession
       THEN SessReturn(t)
       ELSE /\ scPc' = [scPc EXCEPT ![t] = "del"]
            /\ UNCHANGED <<scOp, scUser, scLocal>>
    /\ UNCHANGED <<now_min, sessions, scCalls, nextOid, scFaults>>
    /\ SessConcFrame

\* line 68: del self.sessions[user_id]. The statement raises KeyError when
\* the key is gone; it removes whatever dict the key holds, which for an
\* expiring get_session may be another dict than the expired one it read
SessDel(t) ==
    /\ scPc[t] = "del"
    /\ sessions' = [sessions EXCEPT ![scUser[t]] = NoSession]
    /\ scFaults' =
           scFaults
           \cup (IF sessions[scUser[t]] = NoSession THEN {"KeyError"} ELSE {})
           \cup (IF /\ scOp[t] = "get_session"
                    /\ sessions[scUser[t]] # NoSession
                    /\ Oid(sessions[scUser[t]]) # Oid(scLocal[t])
                 THEN {"new session removed"} ELSE {})
    /\ SessReturn(t)
    /\ UNCHANGED <<now_min, scCalls, nextOid>>
    /\ SessConcFrame

SessConcTick ==
    /\ \E d \in SessTickSteps :
          /\ now_min + d <= SessMaxClock
          /\ now_min' = now_min + d
    /\ UNCHANGED <<sessions, sessConcVars>>
    /\ SessConcFrame

SessConcNext ==
    \/ \E t \in Threads, u \in AccessUsers,
          op \in {"create_session", "get_session", "end_session"} : SessCall(t, op, u)
    \/ \E t \in Threads, c \in Connections : SessStore(t, c)
    \/ \E t \in Threads : SessRead(t)
    \/ \E t \in Threads : SessValid(t)
    \/ \E t \in Threads : SessTouch(t)
    \/ \E t \in Threads : SessEndTest(t)
    \/ \E t \in Threads : SessDel(t)
    \/ SessConcTick

\* C16: under concurrent calls for one user, get_session expiring the old
\* session never removes a session created since, and no expiry or
\* end_session fails with KeyError.
C16_SessionOpsAtomic == scFaults = {}

(***************************************************************************)
(* DataIntegrationService._calculate_correlations, applied to a list of    *)
(* cache entries drawn by Init. A coefficient is kept as the sign of r and *)
(* the fraction r^2; NaN is the value numpy gives for 0/0.                 *)
(***************************************************************************)
MaxCorrEntries == 2

\* what the 'metrics_data' and 'environmental_data' of an entry may hold
MetricsDataIn ==
    {[bee_count |-> 1], [bee_count |-> 2, honey_yield |-> 1],
     [bee_count |-> 1, honey_yield |-> 2]}
EnvDataIn == {[temperature |-> 1], [temperature |-> 2, humidity |-> 1]}

\* cache entries: a timestamp, and each of the two dicts or neither
CorrEntriesIn ==
    {[timestamp |-> isoformat(1)] @@ m @@ v :
        m \in {EmptyDict} \cup {[metrics_data |-> d] : d \in MetricsDataIn},
        v \in {EmptyDict} \cup {[environmental_data |-> d] : d \in EnvDataIn}}

\* data_intergration_service.py:322-327, in the order the dict is iterated
MetricNames == <<"bee_count", "temperature", "humidity", "honey_yield">>

\* data_intergration_service.py:330-336: the dict of an entry a metric is read from
GroupOf(name) ==
    IF name \in {"bee_count", "honey_yield"} THEN "metrics_data" ELSE "environmental_data"

\* the order of the four names under the str comparison of line 341
StrRank == [bee_count |-> 1, honey_yield |-> 2, humidity |-> 3, temperature |-> 4]

\* data_intergration_service.py:339-341: the pairs with metric1 < metric2
MetricPairs ==
    {<<MetricNames[i], MetricNames[j]>> : i, j \in 1..Len(MetricNames)}
        \cap {pair \in Range(MetricNames) \X Range(MetricNames) :
                 StrRank[pair[1]] < StrRank[pair[2]]}

\* data_intergration_service.py:329-336: one value, or None, for every entry
\* that has the dict of the metric
MetricSeries(data, name) ==
    LET having == SelectSeq(data, LAMBDA entry : GroupOf(name) \in DOMAIN entry)
    IN  [i \in 1..Len(having) |-> Get(having[i][GroupOf(name)], name, None)]

\* zip(a, b)
Zip(a, b) ==
    [i \in 1..(IF Len(a) < Len(b) THEN Len(a) ELSE Len(b)) |-> <<a[i], b[i]>>]

\* data_intergration_service.py:343-346
ValidData(data, pair) ==
    SelectSeq(Zip(MetricSeries(data, pair[1]), MetricSeries(data, pair[2])),
              LAMBDA d : d[1] # None /\ d[2] # None)

NaN == [nan |-> TRUE]

\* np.corrcoef(xs, ys)[0, 1]: cov(x, y) / sqrt(var(x) * var(y)); the
\* covariance of a single sample and the quotient for a variance of 0 are
\* 0/0, which numpy evaluates to nan with a warning
corrcoef(xs, ys) ==
    LET n == Len(xs)
        sxy == n * SumSeq([i \in 1..n |-> xs[i] * ys[i]]) - SumSeq(xs) * SumSeq(ys)
        sxx == n * SumSeq([i \in 1..n |-> xs[i] * xs[i]]) - SumSeq(xs) * SumSeq(xs)
        syy == n * SumSeq([i \in 1..n |-> ys[i] * ys[i]]) - SumSeq(ys) * SumSeq(ys)
    IN  IF n < 2 \/ sxx = 0 \/ syy = 0 THEN NaN
        ELSE [nan |-> FALSE,
              sign |-> IF sxy > 0 THEN 1 ELSE IF sxy < 0 THEN -1 ELSE 0,
              num2 |-> sxy * sxy,
              den2 |-> sxx * syy]

\* data_intergration_service.py:317-356; the key of a pair is
\* '<metric1>_vs_<metric2>'
calculate_correlations(data) ==
    [pair \in {p \in MetricPairs : ValidData(data, p) # <<>>} |->
        LET valid_data == ValidData(data, pair)
        IN  corrcoef([i \in 1..Len(valid_data) |-> valid_data[i][1]],
                     [i \in 1..Len(valid_data) |-> valid_data[i][2]])]

CorrIdle ==
    /\ corrIn = <<>>
    /\ corrOut = [op |-> "done"]

CorrInit ==
    /\ corrIn \in SeqsUpTo(CorrEntriesIn, MaxCorrEntries)
    /\ corrOut = [op |-> "none"]

\* one call of _calculate_correlations(data)
CalculateCorrelations ==
    /\ corrOut.op = "none"
    /\ corrOut' = [op |-> "_calculate_correlations",
                   valid_data |-> [pair \in MetricPairs |-> ValidData(corrIn, pair)],
                   correlations |-> calculate_correlations(corrIn)]
    /\ UNCHANGED corrIn
    /\ CorrFrame

CorrNext == CalculateCorrelations

Correlated == corrOut.op = "_calculate_correlations"

\* C21: the output holds no undefined value: a pair with fewer than 2 valid
\* samples, or with zero variance in one of its series, has no key in it.
C21_NoUndefinedCorrelation ==
    Correlated =>
        \A pair \in DOMAIN corrOut.correlations : ~corrOut.correlations[pair].nan

\* an observation holds the metric
HasMetric(entry, name) ==
    /\ GroupOf(name) \in DOMAIN entry
    /\ name \in DOMAIN entry[GroupOf(name)]

\* C22: the samples of a pair are the value pairs of the observations that
\* hold both metrics, one sample for each such observation, in their order;
\* both values of a sample are of the same observation.
C22_SamplesFromOneObservation ==
    Correlated =>
        \A pair \in MetricPairs :
            LET both == SelectSeq(corrIn, LAMBDA entry :
                            HasMetric(entry, pair[1]) /\ HasMetric(entry, pair[2]))
            IN  corrOut.valid_data[pair] =
                    [i \in 1..Len(both) |->
                        <<both[i][GroupOf(pair[1])][pair[1]],
                          both[i][GroupOf(pair[2])][pair[2]]>>]

(***************************************************************************)
(* BeeTrendAnalyzer.get_status_summary, applied to a dict that             *)
(* analyze_trends returns, drawn by Init. The numbers of the trend dicts   *)
(* (averages, changes) play no part in the summary and are left out.       *)
(***************************************************************************)
Directions == {"increasing", "decreasing", "stable"}

\* trend_analyzer.py:75-82
ActivityTrendsIn ==
    {[error |-> "No activity data available"]}
    \cup [trend_direction : Directions, consistency : {"consistent", "highly_variable"}]

\* trend_analyzer.py:93-100
ProductivityTrendsIn ==
    {[error |-> "No productivity data available"]}
    \cup [trend_direction : Directions,
          comparison_to_optimal : {"below_optimal", "optimal", "above_optimal"}]

\* trend_analyzer.py:106-116: the pattern has a variation exactly when the
\* points have a bee_count column, which is when the activity trend has a
\* direction
SeasonalPatternsIn(activity_trend) ==
    IF "error" \in DOMAIN activity_trend
    THEN {[error |-> "Insufficient data for seasonal analysis"]}
    ELSE [seasonal_variation_high : BOOLEAN]

\* trend_analyzer.py:156-177, the tests of _generate_trend_recommendations
TrendRecommendations(activity_trend, productivity_trend, seasonal_pattern) ==
    generate_trend_recommendations(
        IF "trend_direction" \in DOMAIN activity_trend
        THEN IF activity_trend.trend_direction = "decreasing" THEN "decreasing"
             ELSE IF activity_trend.consistency = "highly_variable" THEN "highly_variable"
             ELSE "other"
        ELSE "other",
        /\ "comparison_to_optimal" \in DOMAIN productivity_trend
        /\ productivity_trend.comparison_to_optimal = "below_optimal",
        /\ "seasonal_variation_high" \in DOMAIN seasonal_pattern
        /\ seasonal_pattern.seasonal_variation_high)

\* trend_analyzer.py:35-62: the dicts analyze_trends returns
TrendDicts ==
    {[error |-> "No data available for analysis"],
     [error |-> "Insufficient data for trend analysis"]}
    \cup {[activity_trend |-> a, productivity_trend |-> p, seasonal_pattern |-> sp,
           recommendations |-> TrendRecommendations(a, p, sp)] :
             <<a, p, sp>> \in {t \in ActivityTrendsIn \X ProductivityTrendsIn
                                      \X UNION {SeasonalPatternsIn(a) : a \in ActivityTrendsIn} :
                                  t[3] \in SeasonalPatternsIn(t[1])}}

StatusIdle ==
    /\ stIn = [error |-> "No data available for analysis"]
    /\ stOut = [op |-> "done"]

StatusInit ==
    /\ stIn \in TrendDicts
    /\ stOut = [op |-> "none"]

\* trend_analyzer.py:186-196 for the dict stIn
GetStatusSummary ==
    /\ stOut.op = "none"
    /\ stOut' = [op |-> "get_status_summary"] @@ get_status_summary(stIn)
    /\ UNCHANGED stIn
    /\ StatusFrame

StatusNext == GetStatusSummary

Summarised == stOut.op = "get_status_summary"

TrendsGiven == "error" \notin DOMAIN stIn

\* C24: the outlook is bucketed from the fraction of the two trends whose
\* direction is not decreasing (above 0.7 positive, above 0.3 stable, else
\* cautious), and is insufficient_data for a failed analysis.
C24_OutlookFromNonNegative ==
    Summarised =>
        IF ~TrendsGiven THEN stOut.short_term_outlook = "insufficient_data"
        ELSE (/\ "trend_direction" \in DOMAIN stIn.activity_trend
              /\ "trend_direction" \in DOMAIN stIn.productivity_trend) =>
                 LET non_negative ==
                         Cardinality({t \in {"activity_trend", "productivity_trend"} :
                                         stIn[t].trend_direction # "decreasing"})
                 IN  /\ 10 * non_negative > 7 * 2
                            <=> stOut.short_term_outlook = "positive"
                     /\ (10 * non_negative > 3 * 2 /\ 10 * non_negative <= 7 * 2)
                            <=> stOut.short_term_outlook = "stable"
                     /\ 10 * non_negative <= 3 * 2
                            <=> stOut.short_term_outlook = "cautious"

\* the signed indicator of a trend: +1 for a rise (activity increasing,
\* yield above optimal), -1 for a fall (decreasing, below optimal), else 0
IndicatorSum ==
    (IF Get(stIn.activity_trend, "trend_direction", NoValue) = "increasing" THEN 1 ELSE 0)
    - (IF Get(stIn.activity_trend, "trend_direction", NoValue) = "decreasing" THEN 1 ELSE 0)
    + (IF Get(stIn.productivity_trend, "comparison_to_optimal", NoValue) = "above_optimal"
       THEN 1 ELSE 0)
    - (IF Get(stIn.productivity_trend, "comparison_to_optimal", NoValue) = "below_optimal"
       THEN 1 ELSE 0)

\* C25: the status is unknown for a failed analysis; otherwise, with mean the
\* mean of the two signed indicators, it is excellent iff mean > 0.3, good iff
\* 0 < mean <= 0.3, fair iff -0.3 < mean <= 0, needs_attention iff
\* mean <= -0.3.
C25_StatusFromMean ==
    Summarised =>
        IF ~TrendsGiven THEN stOut.current_status = "unknown"
        ELSE /\ stOut.current_status = "excellent" <=> 10 * IndicatorSum > 3 * 2
             /\ stOut.current_status = "good"
                    <=> (IndicatorSum > 0 /\ 10 * IndicatorSum <= 3 * 2)
             /\ stOut.current_status = "fair"
                    <=> (10 * IndicatorSum > -3 * 2 /\ IndicatorSum <= 0)
             /\ stOut.current_status = "needs_attention" <=> 10 * IndicatorSum <= -3 * 2

\* C25 witness: a rising activity and a yield below optimal give mean 0,
\* which is fair.
C25_Witness ==
    /\ Summarised
    /\ TrendsGiven
    /\ Get(stIn.activity_trend, "trend_direction", NoValue) = "increasing"
    /\ Get(stIn.productivity_trend, "comparison_to_optimal", NoValue) = "below_optimal"
    /\ stOut.current_status = "fair"

\* C36: a successful analysis has the activity and the productivity section,
\* each counting +1, 0 or -1 (0 when the section holds an error), so the
\* status is excellent for a sum of 1 or 2, fair for 0, needs_attention for
\* -1 or -2, and it is never good.
C36_NeverGood ==
    (Summarised /\ TrendsGiven) =>
        /\ {"activity_trend", "productivity_trend"} \subseteq DOMAIN stIn
        /\ stOut.current_status # "good"
        /\ stOut.current_status = "excellent" <=> IndicatorSum \in {1, 2}
        /\ stOut.current_status = "fair" <=> IndicatorSum = 0
        /\ stOut.current_status = "needs_attention" <=> IndicatorSum \in {-1, -2}

\* C36 witness: the activity section holds an error and the yield is above
\* optimal: the mean is 0.5 and the status excellent.
C36_Witness ==
    /\ Summarised
    /\ TrendsGiven
    /\ "error" \in DOMAIN stIn.activity_trend
    /\ Get(stIn.productivity_trend, "comparison_to_optimal", NoValue) = "above_optimal"
    /\ IndicatorSum = 1
    /\ stOut.current_status = "excellent"

\* the place of a text in a list of texts (0 when it is not there)
IndexIn(q, x) ==
    IF \E i \in 1..Len(q) : q[i] = x
    THEN CHOOSE i \in 1..Len(q) : q[i] = x /\ \A j \in 1..(i - 1) : q[j] # x
    ELSE 0

\* C27: the prioritized actions are at most 5 of the trend recommendations,
\* none twice; a more urgent tag comes before a less urgent one, entries of
\* equal tag are in their input order, and what is left out is no more urgent
\* than what is kept; they are empty for a failed analysis.
C27_PrioritizedActions ==
    Summarised =>
        LET out == stOut.immediate_actions
            recs == Get(stIn, "recommendations", <<>>)
            rank(x) == urgency_order[UrgencyTag(x)]
        IN  /\ ~TrendsGiven => out = <<>>
            /\ Len(out) = (IF Len(recs) < 5 THEN Len(recs) ELSE 5)
            /\ \A i \in 1..Len(out) : IndexIn(recs, out[i]) > 0
            /\ \A i, j \in 1..Len(out) :
                  i < j => /\ out[i] # out[j]
                           /\ rank(out[i]) <= rank(out[j])
                           /\ rank(out[i]) = rank(out[j])
                                  => IndexIn(recs, out[i]) < IndexIn(recs, out[j])
            /\ \A k \in 1..Len(recs) :
                  IndexIn(out, recs[k]) = 0 =>
                      \A i \in 1..Len(out) :
                          /\ rank(out[i]) <= rank(recs[k])
                          /\ rank(out[i]) = rank(recs[k]) => IndexIn(recs, out[i]) < k

\* C27 witness: nine recommendations, the second of them normal and followed
\* by important ones, were cut to five, all of them important.
C27_Witness ==
    /\ Summarised
    /\ TrendsGiven
    /\ Len(stIn.recommendations) = 9
    /\ UrgencyTag(stIn.recommendations[2]) = "normal"
    /\ UrgencyTag(stIn.recommendations[3]) = "important"
    /\ Len(stOut.immediate_actions) = 5
    /\ \A i \in 1..5 : UrgencyTag(stOut.immediate_actions[i]) = "important"

(***************************************************************************)
(* BeeTrendAnalyzer.analyze_trends, the activity trend: applied to a list  *)
(* of points drawn by Init. The points are in the order of their           *)
(* timestamps, as add_data_point stamps them; a point may lack bee_count,  *)
(* and its cell of the DataFrame is then NaN. The counts are positive. The *)
(* average and the consistency of the result are left out.                 *)
(***************************************************************************)
MaxActPoints == 5
trend_period_days == 30

\* the metrics of a point, and the days since the point before it
ActMetricsIn == {[bee_count |-> 10], [bee_count |-> 12], [bee_count |-> 25],
                 [honey_yield |-> 20]}
ActGapsIn == {1, 29}

\* the points made of a list of <<metrics, gap>>: each is stamped its gap
\* after the one before
PointsOf(steps) ==
    [i \in 1..Len(steps) |->
        [timestamp |-> SumSeq([j \in 1..i |-> steps[j][2]])] @@ steps[i][1]]

\* trend_analyzer.py:66: df.last('30D') keeps the rows whose index is later
\* than index[-1] - 30 days
LastPeriod(points) ==
    SelectSeq(points, LAMBDA point :
        point.timestamp > points[Len(points)].timestamp - trend_period_days)

\* a cell of the column bee_count
Cell(point) ==
    IF "bee_count" \in DOMAIN point THEN [nan |-> FALSE, value |-> point.bee_count]
    ELSE NaN

\* trend_analyzer.py:70-73: (last - first) / first, which is nan when one of
\* the two cells is
RelativeChange(first, last) ==
    IF first.nan \/ last.nan THEN NaN
    ELSE [nan |-> FALSE, num |-> last.value - first.value, den |-> first.value]

\* trend_analyzer.py:118-124 with significant_change 0.2 = 1/5; every
\* comparison with nan is false
get_trend_direction(change) ==
    IF change.nan THEN "stable"
    ELSE IF 5 * change.num > change.den THEN "increasing"
    ELSE IF 5 * change.num < -change.den THEN "decreasing"
    ELSE "stable"

\* trend_analyzer.py:64-82; the DataFrame has the column bee_count when some
\* point has the key
analyze_activity_trend(points) ==
    LET recent_period == LastPeriod(points)
    IN  IF \E i \in 1..Len(points) : "bee_count" \in DOMAIN points[i]
        THEN LET activity_change ==
                     RelativeChange(Cell(recent_period[1]),
                                    Cell(recent_period[Len(recent_period)]))
             IN  [activity_change |-> activity_change,
                  trend_direction |-> get_trend_direction(activity_change)]
        ELSE [error |-> "No activity data available"]

ActivityIdle ==
    /\ actIn = <<>>
    /\ actOut = [op |-> "done"]

ActivityInit ==
    /\ actIn \in {PointsOf(steps) :
                     steps \in SeqsUpTo(ActMetricsIn \X ActGapsIn, MaxActPoints)}
    /\ actOut = [op |-> "none"]

\* trend_analyzer.py:35-49 for the points actIn
AnalyzeActivity ==
    /\ actOut.op = "none"
    /\ actOut' = [op |-> "analyze_trends"]
                 @@ (IF TooFewPoints(actIn)
                     THEN [error |-> "Insufficient data for trend analysis"]
                     ELSE [activity_trend |-> analyze_activity_trend(actIn)])
    /\ UNCHANGED actIn
    /\ ActivityFrame

ActivityNext == AnalyzeActivity

\* the bee counts observed in the last 30 days before the latest point
RecentCounts ==
    LET having == SelectSeq(LastPeriod(actIn), LAMBDA point : "bee_count" \in DOMAIN point)
    IN  [i \in 1..Len(having) |-> having[i].bee_count]

\* C26: when the analysis runs and bee counts were observed in the last 30
\* days, the direction follows (last - first) / first of those counts:
\* increasing above 0.20, decreasing below -0.20, stable otherwise.
C26_ActivityDirection ==
    (/\ actOut.op = "analyze_trends"
     /\ "activity_trend" \in DOMAIN actOut
     /\ RecentCounts # <<>>) =>
        LET first == RecentCounts[1]
            last == RecentCounts[Len(RecentCounts)]
        IN  /\ "trend_direction" \in DOMAIN actOut.activity_trend
            /\ actOut.activity_trend.trend_direction =
                   (IF 5 * (last - first) > first THEN "increasing"
                    ELSE IF 5 * (last - first) < -first THEN "decreasing"
                    ELSE "stable")

(***************************************************************************)
(* Tokens: generate_token, verify_token and the denylist                    *)
(* A token is the JWT of its payload {user_id, exp}; two tokens with the    *)
(* same payload are the same text. The clock counts days.                   *)
(***************************************************************************)
MaxTokens == 2
TokenInstants == {0, 29, 30, 31, 60}
\* what create_token reads from the request: expires_in and time_unit
LifetimesIn == {[expires_in |-> 30, time_unit |-> "days"],
                [expires_in |-> 2, time_unit |-> "months"]}
\* token_blacklist.py:8, the defaults of add_token: expires_in=30, 'days'
blacklist_days == 30

\* auth.py:15-26 and token_blacklist.py:9-20, in days
Days(expires_in, time_unit) ==
    CASE time_unit = "days" -> expires_in
      [] time_unit = "months" -> expires_in * 30
      [] time_unit = "years" -> expires_in * 365

\* auth.py:13-29
generate_token(user_id, expires_in, time_unit) ==
    [user_id |-> user_id, exp |-> now_t + Days(expires_in, time_unit)]

\* token_blacklist.py:8-22 as the routes call it, add_token(token)
AddToken(table, token) == (token :> now_t + blacklist_days) @@ table

\* token_blacklist.py:24-30: the answer, and the table after the call
is_token_blacklisted(table, token) ==
    IF token \in DOMAIN table
    THEN IF now_t < table[token]
         THEN [listed |-> TRUE, table |-> table]
         ELSE [listed |-> FALSE,
               table |-> [k \in DOMAIN table \ {token} |-> table[k]]]
    ELSE [listed |-> FALSE, table |-> table]

\* auth.py:31-42; jwt.decode raises ExpiredSignatureError once exp <= now
verify_token(table, token) ==
    LET denied == is_token_blacklisted(table, token)
    IN  IF denied.listed
        THEN [valid |-> FALSE, message |-> "Token has been revoked",
              table |-> denied.table]
        ELSE IF now_t < token.exp
             THEN [valid |-> TRUE, message |-> token.user_id, table |-> denied.table]
             ELSE [valid |-> FALSE, message |-> "Token has expired",
                   table |-> denied.table]

TokenInit ==
    /\ now_t = 0
    /\ tokens = {}
    /\ blacklist = <<>>
    /\ revoked = {}
    /\ tokenRet = [op |-> "none"]

\* token_routes.py:9-26
create_token(user_id, life) ==
    /\ Cardinality(tokens) < MaxTokens
    /\ LET token == generate_token(user_id, life.expires_in, life.time_unit)
       IN  /\ tokens' = tokens \cup {token}
           /\ tokenRet' = [op |-> "create_token", token |-> token, at |-> now_t,
                           valid |-> TRUE]
    /\ UNCHANGED <<now_t, blacklist, revoked>>
    /\ TokenFrame

\* token_routes.py:28-33
verify(token) ==
    /\ LET answer == verify_token(blacklist, token)
       IN  /\ blacklist' = answer.table
           /\ tokenRet' = [op |-> "verify", token |-> token, at |-> now_t,
                           valid |-> answer.valid]
    /\ UNCHANGED <<now_t, tokens, revoked>>
    /\ TokenFrame

\* token_routes.py:35-40; require_token (auth.py:44-58) verifies the token
\* of the request first
revoke_token(auth, token) ==
    /\ LET allowed == verify_token(blacklist, auth)
       IN  IF allowed.valid
           THEN /\ blacklist' = AddToken(allowed.table, token)
                /\ revoked' = revoked \cup {token}
                /\ tokenRet' = [op |-> "revoke_token", token |-> token,
                                at |-> now_t, valid |-> TRUE]
           ELSE /\ blacklist' = allowed.table
                /\ revoked' = revoked
                /\ tokenRet' = [op |-> "revoke_token", token |-> token,
                                at |-> now_t, valid |-> FALSE]
    /\ UNCHANGED <<now_t, tokens>>
    /\ TokenFrame

\* token_routes.py:42-52
refresh_token(auth, old_token) ==
    /\ Cardinality(tokens) < MaxTokens
    /\ LET allowed == verify_token(blacklist, auth)
           old == verify_token(allowed.table, old_token)
       IN  IF allowed.valid /\ old.valid
           THEN /\ tokens' = tokens \cup {generate_token(old.message, 30, "days")}
                /\ blacklist' = AddToken(old.table, old_token)
                /\ revoked' = revoked \cup {old_token}
                /\ tokenRet' = [op |-> "refresh_token", token |-> old_token,
                                at |-> now_t, valid |-> TRUE]
           ELSE /\ tokens' = tokens
                /\ blacklist' = IF allowed.valid THEN old.table ELSE allowed.table
                /\ revoked' = revoked
                /\ tokenRet' = [op |-> "refresh_token", token |-> old_token,
                                at |-> now_t, valid |-> FALSE]
    /\ UNCHANGED now_t
    /\ TokenFrame

TokenTick ==
    /\ \E t \in TokenInstants :
          /\ t > now_t
          /\ now_t' = t
    /\ UNCHANGED <<tokens, blacklist, revoked, tokenRet>>
    /\ TokenFrame

TokenNext ==
    \/ \E u \in Users, life \in LifetimesIn : create_token(u, life)
    \/ \E token \in tokens : verify(token)
    \/ \E auth \in tokens, token \in tokens : revoke_token(auth, token)
    \/ \E auth \in tokens, token \in tokens : refresh_token(auth, token)
    \/ TokenTick

\* C33: once the revoke or the refresh route has put a token on the
\* denylist, verify_token does not report it valid at any time before the
\* token's own expiry, whatever expiry it was generated with.
C33_RevokedStaysInvalid ==
    (/\ tokenRet.op = "verify"
     /\ tokenRet.token \in revoked
     /\ tokenRet.at < tokenRet.token.exp) => ~tokenRet.valid

(***************************************************************************)
(* process_media_analysis: one request from start_tracking to the return    *)
(* The analysis id is a fresh uuid, so no other caller works on the job;    *)
(* the log counts the requests the handler was given.                       *)
(* Every emit of the tracker may raise, and so may the analysis step        *)
(* (data['media_data']); session_manager.add_media_result does not.         *)
(***************************************************************************)
MaxMediaRequests == 2
MediaTypesIn == {"image", "video", "audio"}
NoMedia == "none"
\* str(e) of what the analysis step raises, and of what an emit raises
AnalysisErrorsIn == {"'media_data'", "analysis failed"}
EmitError == "emit failed"
NoError == "none"
\* a log of a request in which nothing happened yet
NoLog == [steps |-> <<>>, statuses |-> <<>>, raised |-> FALSE, error |-> NoError,
          answer |-> "none", requests |-> 0]

\* intergrated_handlers.py:25
TotalSteps(media_type) == IF media_type = "video" THEN 5 ELSE 3

MediaInit ==
    /\ mPc = "idle"
    /\ mType = NoMedia
    /\ mJob = NoJob
    /\ mStep = 0
    /\ mLog = NoLog

\* intergrated_handlers.py:17-26: a request comes in, start_tracking
MediaStart(media_type) ==
    /\ mPc \in {"idle", "done"}
    /\ mLog.requests < MaxMediaRequests
    /\ mType' = media_type
    /\ mJob' = NewJob(TotalSteps(media_type))
    /\ mStep' = 1
    /\ mLog' = [NoLog EXCEPT !.requests = mLog.requests + 1]
    /\ mPc' = "update"
    /\ MediaFrame

\* where the handler goes after update_progress(analysis_id, step, ...):
\* lines 33-37 after step 2, line 52 after step total_steps
AfterUpdate(step, total_steps) ==
    IF step = total_steps THEN "complete"
    ELSE IF step = 2 THEN "analyze"
    ELSE "update"

\* intergrated_handlers.py:30, 33, 41-42, 45-49: one update_progress; the
\* job is written before the emit (progress_tracker.py:29-40)
MediaUpdate(emit_raises) ==
    /\ mPc = "update"
    /\ mJob' = Updated(mJob, mStep, "m")
    /\ mLog' = [mLog EXCEPT !.steps = Append(@, mStep),
                            !.raised = @ \/ emit_raises,
                            !.error = IF emit_raises THEN EmitError ELSE @]
    /\ IF emit_raises
       THEN mPc' = "except" /\ mStep' = mStep
       ELSE /\ mPc' = AfterUpdate(mStep, mJob.total_steps)
            /\ mStep' = IF mStep = mJob.total_steps THEN mStep ELSE mStep + 1
    /\ UNCHANGED mType
    /\ MediaFrame

\* intergrated_handlers.py:34-37
MediaAnalyze(error) ==
    /\ mPc = "analyze"
    /\ mLog' = [mLog EXCEPT !.raised = @ \/ error # NoError, !.error = error]
    /\ mPc' = IF error # NoError THEN "except" ELSE "update"
    /\ UNCHANGED <<mType, mJob, mStep>>
    /\ MediaFrame

\* intergrated_handlers.py:52: complete_analysis writes the status and then
\* emits (progress_tracker.py:52-62)
MediaComplete(results, emit_raises) ==
    /\ mPc = "complete"
    /\ mJob' = Completed(mJob, results)
    /\ mLog' = [mLog EXCEPT !.statuses = Append(@, "completed"),
                            !.raised = @ \/ emit_raises,
                            !.error = IF emit_raises THEN EmitError ELSE @]
    /\ mPc' = IF emit_raises THEN "except" ELSE "save"
    /\ UNCHANGED <<mType, mStep>>
    /\ MediaFrame

\* intergrated_handlers.py:55-65: add_media_result, return
MediaSave ==
    /\ mPc = "save"
    /\ mPc' = "done"
    /\ mLog' = [mLog EXCEPT !.answer = "success"]
    /\ UNCHANGED <<mType, mJob, mStep>>
    /\ MediaFrame

\* intergrated_handlers.py:67-72: fail_analysis(analysis_id, str(e)) on any
\* exception; the handler raises BeeAnalysisError, or what the emit of
\* fail_analysis raised
MediaExcept(emit_raises) ==
    /\ mPc = "except"
    /\ mJob' = Failed(mJob, mLog.error)
    /\ mLog' = [mLog EXCEPT !.statuses = Append(@, "failed"),
                            !.answer = IF emit_raises THEN EmitError
                                       ELSE "BeeAnalysisError"]
    /\ mPc' = "done"
    /\ UNCHANGED <<mType, mStep>>
    /\ MediaFrame

MediaNext ==
    \/ \E media_type \in MediaTypesIn : MediaStart(media_type)
    \/ \E emit_raises \in BOOLEAN : MediaUpdate(emit_raises)
    \/ \E error \in AnalysisErrorsIn \cup {NoError} : MediaAnalyze(error)
    \/ \E results \in ResultsIn, emit_raises \in BOOLEAN :
          MediaComplete(results, emit_raises)
    \/ MediaSave
    \/ \E emit_raises \in BOOLEAN : MediaExcept(emit_raises)

\* the list 1, 2, ..., n
UpTo(n) == [i \in 1..n |-> i]

\* C34: a started job is reported the steps 1, 2, ... in order, up to
\* total_steps (3, or 5 for a video); it is completed only after the update
\* for total_steps; it is given at most one terminal status, and when the
\* handler has ended exactly one: failed if a step raised, completed
\* otherwise.
C34_OneTerminalStatus ==
    mJob # NoJob =>
        /\ mJob.total_steps = (IF mType = "video" THEN 5 ELSE 3)
        /\ Len(mLog.steps) <= mJob.total_steps
        /\ mLog.steps = UpTo(Len(mLog.steps))
        /\ "completed" \in {mLog.statuses[i] : i \in DOMAIN mLog.statuses} =>
               mLog.steps = UpTo(mJob.total_steps)
        /\ Len(mLog.statuses) <= 1
        /\ mPc = "done" =>
               /\ Len(mLog.statuses) = 1
               /\ mJob.status = (IF mLog.raised THEN "failed" ELSE "completed")

(***************************************************************************)
(* The two locks: threads that call the tracker, threads that call          *)
(* is_allowed. Every tracker operation runs inside `with self._lock`, which *)
(* releases the lock when the block is left, by return or by exception.     *)
(* Either the tracker's threads run or the rate limiter's.                  *)
(***************************************************************************)
MaxLockCalls == 2
TrackOps == {"start_tracking", "update_progress", "complete_analysis",
             "fail_analysis", "get_progress"}
\* the operations that emit, progress_tracker.py:40, 58, 74
EmittingOps == {"update_progress", "complete_analysis", "fail_analysis"}

\* a with statement that releases the lock only when the block returns
WithExitOnReturn(t, raised) == IF raised THEN t ELSE NoThread

\* progress_tracker.py:14, 26, 50, 66, 81: the holder of the lock once
\* thread t has left the with block, by return or by exception
WithExit(t, raised) == NoThread

TrackInit ==
    /\ trLock = NoThread
    /\ trPc = [t \in Threads |-> "idle"]
    /\ trOp = [t \in Threads |-> "none"]
    /\ trOut = [t \in Threads |-> "none"]
    /\ trCalls = 0

\* a thread calls an operation of the tracker and waits at `with self._lock`
TrCall(t, op) ==
    /\ trPc[t] = "idle"
    /\ trCalls < MaxLockCalls
    /\ trCalls' = trCalls + 1
    /\ trPc' = [trPc EXCEPT ![t] = "acquire"]
    /\ trOp' = [trOp EXCEPT ![t] = op]
    /\ UNCHANGED <<trLock, trOut>>
    /\ TrackFrame

\* `with self._lock`: entry needs the lock to be free
TrAcquire(t) ==
    /\ trPc[t] = "acquire"
    /\ trLock = NoThread
    /\ trLock' = t
    /\ trPc' = [trPc EXCEPT ![t] = "body"]
    /\ UNCHANGED <<trOp, trOut, trCalls>>
    /\ TrackFrame

\* thread t leaves the with block
TrLeave(t, raised) ==
    /\ trLock' = WithExit(t, raised)
    /\ trPc' = [trPc EXCEPT ![t] = "idle"]
    /\ trOp' = [trOp EXCEPT ![t] = "none"]
    /\ trOut' = [trOut EXCEPT ![t] = IF raised THEN "raised" ELSE "returned"]
    /\ UNCHANGED trCalls
    /\ TrackFrame

\* progress_tracker.py:15-22, 27-37, 51-56, 67-72, 82: the writes and reads
\* before the emit; the division of line 37 may raise
TrBody(t, raises) ==
    /\ trPc[t] = "body"
    /\ raises => trOp[t] = "update_progress"
    /\ IF trOp[t] \in EmittingOps /\ ~raises
       THEN /\ trPc' = [trPc EXCEPT ![t] = "emit"]
            /\ UNCHANGED <<trLock, trOp, trOut, trCalls>>
            /\ TrackFrame
       ELSE TrLeave(t, raises)

\* progress_tracker.py:40, 58, 74: emit returns or raises
TrEmit(t, raises) ==
    /\ trPc[t] = "emit"
    /\ TrLeave(t, raises)

\* what one thread does inside a tracker operation
TrStep(t) ==
    \/ TrAcquire(t)
    \/ \E raises \in BOOLEAN : TrBody(t, raises)
    \/ \E raises \in BOOLEAN : TrEmit(t, raises)

\* what one thread does inside is_allowed
RLStep(t) ==
    \/ RLAcquire(t)
    \/ RLPruneStep(t)
    \/ RLDeny(t)
    \/ RLPass(t)
    \/ RLAppend(t)

\* the tracker's threads, while no thread has called is_allowed
TrackNext ==
    /\ RLInit
    /\ \/ \E t \in Threads, op \in TrackOps : TrCall(t, op)
       \/ \E t \in Threads : TrStep(t)

\* the rate limiter's threads, while no thread has called the tracker
RLockNext ==
    /\ TrackInit
    /\ \/ /\ Len(callLog) + InFlight < MaxLockCalls
          /\ \E t \in Threads, u \in Users : RLCall(t, u)
       \/ \E t \in Threads : RLStep(t)
       \/ RLTick

LockNext == TrackNext \/ RLockNext

\* fair scheduling: a thread that can take a step from some time on takes one
LockFairness ==
    \A t \in Threads :
        /\ WF_vars(RLInit /\ TrStep(t))
        /\ WF_vars(TrackInit /\ RLStep(t))

\* C32: every thread that has called is_allowed or an operation of the
\* tracker returns in the end, whether the operation returns or raises, and
\* a thread that has returned does not hold a lock.
C32_EveryCallerReturns ==
    /\ \A t \in Threads : pc[t] # "idle" ~> pc[t] = "idle"
    /\ \A t \in Threads : trPc[t] # "idle" ~> trPc[t] = "idle"
    /\ [](\A t \in Threads : /\ pc[t] = "idle" => lock # t
                             /\ trPc[t] = "idle" => trLock # t)

\* C32 witness: a call has ended with the exception of its emit, and the
\* other thread, which called the tracker too, holds the lock.
C32_Witness ==
    \E t \in Threads, w \in Threads :
        /\ w # t
        /\ trOut[t] = "raised"
        /\ trPc[t] = "idle"
        /\ trLock = w
        /\ trPc[w] \in {"body", "emit"}

(***************************************************************************)
(* The four per-user tables side by side: the rate windows, the observation *)
(* series, the cache entries and the sessions. One of the four components   *)
(* runs while the other three rest in their initial state; every session    *)
(* operation acts on u1, and create, get and end on u2 too. Every caller in *)
(* the repository builds the data of a call per request                     *)
(* (analysis_controller.py:27, 186), so the observations of two users are   *)
(* different objects and are modelled by value here.                        *)
(***************************************************************************)
\* the operations at most in each of the four tables
MaxStoreOps == 3

\* the entries of all users together
RECURSIVE Stored(_, _)
Stored(table, keys) ==
    IF keys = {} THEN 0
    ELSE LET key == CHOOSE k \in keys : TRUE
         IN  Len(table[key]) + Stored(table, keys \ {key})

\* the rate limiter alone
StoreRL ==
    /\ SessInit /\ TrendInit /\ CacheInit
    /\ Len(callLog) < MaxStoreOps
    /\ RLNext

\* the sessions alone
StoreSessions ==
    /\ RLInit /\ TrendInit /\ CacheInit
    /\ \/ \E u \in Users : create_session(u, "c1")
       \/ \E u \in Users : get_session(u)
       \/ \E u \in AccessUsers, data \in SessDataIn : update_session(u, data)
       \/ \E u \in AccessUsers, interaction \in InteractionsIn :
              add_to_history(u, interaction)
       \/ \E u \in AccessUsers, result \in MediaResultsIn :
              add_media_result(u, result)
       \/ \E u \in AccessUsers : get_session_context(u)
       \/ \E u \in AccessUsers, context \in ContextIn : update_context(u, context)
       \/ \E u \in AccessUsers : get_session_summary(u)
       \/ \E u \in Users : end_session(u)
       \/ cleanup_expired_sessions
       \/ SessTick

\* the observation series alone
StoreTrend ==
    /\ RLInit /\ SessInit /\ CacheInit
    /\ \/ /\ Stored(data_points, DOMAIN data_points) < MaxStoreOps
          /\ \E u \in Users, d \in MetricsIn : add_data_point(u, d)
       \/ TrendTick

\* the data cache alone
StoreCache ==
    /\ RLInit /\ SessInit
    /\ data_points = <<>> /\ trendRet = [op |-> "none"]
    /\ \/ /\ Stored(data_cache, DOMAIN data_cache) < MaxStoreOps
          /\ \E u \in Users, ts \in CacheInstants \cup {None} : update_cache(u, ts)
       \/ CacheTick

OneStoreNext == StoreRL \/ StoreSessions \/ StoreTrend \/ StoreCache

\* what a dict holds for a key: one value, or none
Entry(table, key) == IF key \in DOMAIN table THEN <<table[key]>> ELSE <<>>

StoresInit ==
    /\ RLInit /\ SessInit /\ ProgInit /\ TrendInit /\ CacheInit
    /\ AliasInit /\ TrendConcInit /\ SessConcInit
    /\ TokenInit /\ MediaInit /\ TrackInit

\* no analysis is being studied
StudiesIdle == CorrIdle /\ StatusIdle /\ ActivityIdle

Init == StoresInit /\ PruneIdle /\ ReportIdle /\ StudiesIdle

Next ==
    \/ RLNext
    \/ SessNext
    \/ SessAccessNext
    \/ ProgNext
    \/ TrendNext
    \/ CacheNext
    \/ PruneNext
    \/ FullReportNext
    \/ AliasNext
    \/ TrendConcNext
    \/ SessConcNext
    \/ CorrNext
    \/ StatusNext
    \/ ActivityNext
    \/ TokenNext
    \/ MediaNext
    \/ TrackNext

Spec == Init /\ [][Next]_vars

SpecRL == Init /\ [][RLNext]_vars

SpecSession == Init /\ [][SessNext]_vars

SpecSessionAccess == Init /\ [][SessAccessNext]_vars

SpecOneStore == Init /\ [][OneStoreNext]_vars

SpecProgress == Init /\ [][ProgNext]_vars

SpecTrend == Init /\ [][TrendNext]_vars

SpecCache == Init /\ [][CacheNext]_vars

SpecAlias == Init /\ [][AliasNext]_vars

SpecTrendConc == Init /\ [][TrendConcNext]_vars

SpecSessionConc == Init /\ [][SessConcNext]_vars

SpecToken == Init /\ [][TokenNext]_vars

SpecMedia == Init /\ [][MediaNext]_vars

SpecLocks == Init /\ [][LockNext]_vars /\ LockFairness

InitPrune == StoresInit /\ PruneInit /\ ReportIdle /\ StudiesIdle

InitReport == StoresInit /\ PruneIdle /\ ReportInit /\ StudiesIdle

InitFullReport == StoresInit /\ PruneIdle /\ FullReportInit /\ StudiesIdle

InitSummary == StoresInit /\ PruneIdle /\ SummaryReportInit /\ StudiesIdle

InitCorr == StoresInit /\ PruneIdle /\ ReportIdle /\ CorrInit /\ StatusIdle /\ ActivityIdle

InitStatus == StoresInit /\ PruneIdle /\ ReportIdle /\ CorrIdle /\ StatusInit /\ ActivityIdle

InitActivity == StoresInit /\ PruneIdle /\ ReportIdle /\ CorrIdle /\ StatusIdle /\ ActivityInit

SpecPrune == InitPrune /\ [][PruneNext]_vars

SpecReport == InitReport /\ [][ReportNext]_vars

SpecFullReport == InitFullReport /\ [][FullReportNext]_vars

SpecSummary == InitSummary /\ [][ReportNext]_vars

SpecCorr == InitCorr /\ [][CorrNext]_vars

SpecStatus == InitStatus /\ [][StatusNext]_vars

SpecActivity == InitActivity /\ [][ActivityNext]_vars

====
